---------------------------- MODULE Spec2Model ----------------------------
(***************************************************************************)
(* Model of the incremental billing pipeline of open-finops-pipelines:     *)
(* manifest discovery (services/manifest_discovery.py), extraction to the  *)
(* staging directory (services/billing_extractor.py), the persisted        *)
(* manifest states (services/state_db.py), the schema registry             *)
(* (services/schema_manager.py) and the DuckDB load engine                 *)
(* (services/duckdb_loader.py).                                            *)
(*                                                                         *)
(* Strings that the code inspects character by character (column names)    *)
(* are sequences of one-character strings.  Billing periods are numbered   *)
(* months (1 = the earliest month), which keeps the order that the code    *)
(* gets from comparing YYYY-MM strings.                                    *)
(***************************************************************************)
EXTENDS Integers, Sequences, FiniteSets, Bags, TLC

\* ------------------------------------------------------------------------
\* Characters
\* ------------------------------------------------------------------------
LowerSeq ==
  <<"a","b","c","d","e","f","g","h","i","j","k","l","m",
    "n","o","p","q","r","s","t","u","v","w","x","y","z">>

UpperSeq ==
  <<"A","B","C","D","E","F","G","H","I","J","K","L","M",
    "N","O","P","Q","R","S","T","U","V","W","X","Y","Z">>

DigitSeq == <<"0","1","2","3","4","5","6","7","8","9">>

Lower == {LowerSeq[i] : i \in 1..Len(LowerSeq)}

Upper == {UpperSeq[i] : i \in 1..Len(UpperSeq)}

Digit == {DigitSeq[i] : i \in 1..Len(DigitSeq)}

\* The characters of the model in the order of their code points.
AsciiOrder == <<"/">> \o DigitSeq \o <<":">> \o UpperSeq \o <<"_">> \o LowerSeq

Code(c) == CHOOSE i \in 1..Len(AsciiOrder) : AsciiOrder[i] = c

\* str.lower() on one character
LowerChar(c) ==
  IF c \in Upper
    THEN LowerSeq[CHOOSE i \in 1..Len(UpperSeq) : UpperSeq[i] = c]
    ELSE c

\* lexicographic order of two strings, as Python compares str values
RECURSIVE StrLess(_, _)
StrLess(a, b) ==
  IF a = <<>> THEN b # <<>>
  ELSE IF b = <<>> THEN FALSE
  ELSE IF Head(a) = Head(b) THEN StrLess(Tail(a), Tail(b))
  ELSE Code(Head(a)) < Code(Head(b))

\* ------------------------------------------------------------------------
\* SchemaManager.normalize_column_name
\* ------------------------------------------------------------------------
\* re.sub('([a-z0-9])([A-Z])', r'\1_\2', s)
RECURSIVE CamelToSnake(_)
CamelToSnake(s) ==
  IF Len(s) < 2 THEN s
  ELSE IF s[1] \in (Lower \cup Digit) /\ s[2] \in Upper
    THEN <<s[1], "_">> \o CamelToSnake(Tail(s))
    ELSE <<s[1]>> \o CamelToSnake(Tail(s))

Lowercase(s) == [i \in 1..Len(s) |-> LowerChar(s[i])]

\* re.sub(r'[^a-z0-9]', '_', s)
ReplaceNonAlnum(s) ==
  [i \in 1..Len(s) |-> IF s[i] \in (Lower \cup Digit) THEN s[i] ELSE "_"]

\* re.sub(r'_+', '_', s)
RECURSIVE CollapseUnderscores(_)
CollapseUnderscores(s) ==
  IF Len(s) < 2 THEN s
  ELSE IF s[1] = "_" /\ s[2] = "_"
    THEN CollapseUnderscores(Tail(s))
    ELSE <<s[1]>> \o CollapseUnderscores(Tail(s))

RECURSIVE StripLeft(_)
StripLeft(s) ==
  IF s # <<>> /\ Head(s) = "_" THEN StripLeft(Tail(s)) ELSE s

RECURSIVE StripRight(_)
StripRight(s) ==
  IF s # <<>> /\ s[Len(s)] = "_"
    THEN StripRight(SubSeq(s, 1, Len(s) - 1))
    ELSE s

\* s.strip('_')
StripUnderscores(s) == StripRight(StripLeft(s))

UnknownColumn == <<"u","n","k","n","o","w","n","_","c","o","l","u","m","n">>

ColPrefix == <<"c","o","l","_">>

ColSuffix == <<"_","c","o","l">>

reserved_words == {
    <<"g","r","o","u","p">>, <<"o","r","d","e","r">>,
    <<"s","e","l","e","c","t">>, <<"f","r","o","m">>,
    <<"w","h","e","r","e">>, <<"j","o","i","n">>,
    <<"i","n","n","e","r">>, <<"o","u","t","e","r">>,
    <<"l","e","f","t">>, <<"r","i","g","h","t">>,
    <<"o","n">>, <<"a","s">>,
    <<"a","n","d">>, <<"o","r">>,
    <<"n","o","t">>, <<"i","n">>,
    <<"e","x","i","s","t","s">>, <<"b","e","t","w","e","e","n">>,
    <<"l","i","k","e">>, <<"i","s">>,
    <<"n","u","l","l">>, <<"t","r","u","e">>,
    <<"f","a","l","s","e">>, <<"c","a","s","e">>,
    <<"w","h","e","n">>, <<"t","h","e","n">>,
    <<"e","l","s","e">>, <<"e","n","d">>,
    <<"u","n","i","o","n">>, <<"i","n","t","e","r","s","e","c","t">>,
    <<"e","x","c","e","p","t">>, <<"a","l","l">>,
    <<"d","i","s","t","i","n","c","t">>, <<"l","i","m","i","t">>,
    <<"o","f","f","s","e","t">>, <<"h","a","v","i","n","g">>,
    <<"b","y">>, <<"a","s","c">>,
    <<"d","e","s","c">>, <<"c","r","e","a","t","e">>,
    <<"t","a","b","l","e">>, <<"i","n","s","e","r","t">>,
    <<"u","p","d","a","t","e">>, <<"d","e","l","e","t","e">>,
    <<"a","l","t","e","r">>, <<"d","r","o","p">>,
    <<"i","n","d","e","x">>, <<"v","i","e","w">>,
    <<"d","a","t","a","b","a","s","e">>, <<"s","c","h","e","m","a">>,
    <<"c","o","l","u","m","n">>, <<"p","r","i","m","a","r","y">>,
    <<"k","e","y">>, <<"f","o","r","e","i","g","n">>,
    <<"r","e","f","e","r","e","n","c","e","s">>,
    <<"c","o","n","s","t","r","a","i","n","t">>,
    <<"u","n","i","q","u","e">>, <<"c","h","e","c","k">>,
    <<"d","e","f","a","u","l","t">>, <<"g","r","a","n","t">>,
    <<"r","e","v","o","k","e">>, <<"u","s","e","r">>,
    <<"r","o","l","e">>, <<"c","o","m","m","i","t">>,
    <<"r","o","l","l","b","a","c","k">>, <<"b","e","g","i","n">>,
    <<"t","r","a","n","s","a","c","t","i","o","n">>,
    <<"s","t","a","r","t">> }

is_reserved_word(word) == Lowercase(word) \in reserved_words

\* if not name: name = "unknown_column"
OrUnknownColumn(name) == IF name = <<>> THEN UnknownColumn ELSE name

\* if name[0].isdigit(): name = f"col_{name}"
WithColPrefix(name) == IF name[1] \in Digit THEN ColPrefix \o name ELSE name

\* normalize_column_name without its reserved-word step
WithColSuffix_Never(name) == name

\* if self.is_reserved_word(name): name = f"{name}_col"
WithColSuffix(name) ==
  IF is_reserved_word(name) THEN name \o ColSuffix ELSE name

normalize_column_name(column_name) ==
  WithColSuffix(
    WithColPrefix(
      OrUnknownColumn(
        StripUnderscores(
          CollapseUnderscores(
            ReplaceNonAlnum(
              Lowercase(
                CamelToSnake(column_name))))))))

\* ------------------------------------------------------------------------
\* SchemaManager: types, collision resolution, unify, diff, mapping
\* ------------------------------------------------------------------------
ResourceTags == <<"r","e","s","o","u","r","c","e","T","a","g","s">>

TYPE_MAPPING(aws_type) ==
  CASE aws_type = "String"             -> "VARCHAR"
    [] aws_type = "OptionalString"     -> "VARCHAR"
    [] aws_type = "BigDecimal"         -> "DECIMAL(18,2)"
    [] aws_type = "OptionalBigDecimal" -> "DECIMAL(18,2)"
    [] aws_type = "DateTime"           -> "TIMESTAMP"
    [] aws_type = "Interval"           -> "VARCHAR"
    [] OTHER                           -> "VARCHAR"

get_duckdb_type(category, aws_type) ==
  IF category = ResourceTags THEN "VARCHAR" ELSE TYPE_MAPPING(aws_type)

\* f"{category}/{name}"
OriginalName(col) == col.category \o <<"/">> \o col.name

\* str(n) for the small suffix numbers of the model
IntToStr(n) == IF n < 10 THEN <<DigitSeq[n + 1]>>
               ELSE <<DigitSeq[(n \div 10) + 1], DigitSeq[(n % 10) + 1]>>

\* _resolve_duplicate_name: the resolved name and the updated seen_names
resolve_duplicate_name(base_name, seen_names) ==
  IF base_name \in DOMAIN seen_names
    THEN [name |-> base_name \o <<"_">> \o IntToStr(seen_names[base_name] + 1),
          seen |-> [seen_names EXCEPT ![base_name] = @ + 1]]
    ELSE [name |-> base_name,
          seen |-> [b \in DOMAIN seen_names \cup {base_name} |->
                      IF b = base_name THEN 0 ELSE seen_names[b]]]

ColumnDefinition(col, normalized_name) ==
  [original_name   |-> OriginalName(col),
   normalized_name |-> normalized_name,
   category        |-> col.category,
   aws_type        |-> col.type,
   duckdb_type     |-> get_duckdb_type(col.category, col.type)]

\* the columns that the published manifests declare
ColBill ==
  [category |-> <<"b","i","l","l">>,
   name     |-> <<"B","i","l","l","i","n","g","P","e","r","i","o","d",
                  "S","t","a","r","t","D","a","t","e">>,
   type     |-> "DateTime"]

ColItem ==
  [category |-> <<"i","d","e","n","t","i","t","y">>,
   name     |-> <<"L","i","n","e","I","t","e","m","I","d">>,
   type     |-> "String"]

ColExec ==
  [category |-> <<"e","x","e","c","u","t","i","o","n">>,
   name     |-> <<"I","d">>,
   type     |-> "String"]

ColTag ==
  [category |-> ResourceTags,
   name     |-> <<"u","s","e","r",":","T","e","a","m">>,
   type     |-> "BigDecimal"]

CatalogColumns == {ColBill, ColItem, ColExec, ColTag}

\* columns of a manifest whose category/name collide once normalized:
\* a/F and a/f both give a_f, a_f/1 gives a_f_1; a/F is declared with two
\* types
PoolUpper ==
  [category |-> <<"a">>, name |-> <<"F">>, type |-> "String"]

PoolLower ==
  [category |-> <<"a">>, name |-> <<"f">>, type |-> "DateTime"]

PoolSuffixed ==
  [category |-> <<"a","_","f">>, name |-> <<"1">>, type |-> "String"]

PoolRetyped ==
  [category |-> <<"a">>, name |-> <<"F">>, type |-> "DateTime"]

ColumnPool == {PoolUpper, PoolLower, PoolSuffixed, PoolRetyped}

\* normalize_column_name of the category/name of the catalog's columns,
\* computed once
CatalogOriginalNames ==
  {OriginalName(c) : c \in CatalogColumns \cup ColumnPool}

NormalizedCatalogNames ==
  [o \in CatalogOriginalNames |-> normalize_column_name(o)]

\* normalize_column_name(original_name) as the loops below call it
NormalizedName(original_name) ==
  IF original_name \in CatalogOriginalNames
    THEN NormalizedCatalogNames[original_name]
    ELSE normalize_column_name(original_name)

normalized_original_name(col) == NormalizedName(OriginalName(col))

EmptySeen == [b \in {} |-> 0]

\* _process_manifest_columns; filtering says whether existing_columns was
\* given (get_new_columns) or is None (create_column_mapping)
RECURSIVE ProcessColumnsFrom(_, _, _, _, _)
\* the body of the loop for column i, whose resolved name is res.name
ProcessColumn(manifest_columns, i, res, filtering, existing_columns) ==
  (IF filtering /\ res.name \in existing_columns
     THEN <<>>
     ELSE <<ColumnDefinition(manifest_columns[i], res.name)>>)
  \o ProcessColumnsFrom(manifest_columns, i + 1, res.seen, filtering,
                        existing_columns)

ProcessColumnsFrom(manifest_columns, i, seen, filtering, existing_columns) ==
  IF i > Len(manifest_columns) THEN <<>>
  ELSE ProcessColumn(
         manifest_columns, i,
         resolve_duplicate_name(
           normalized_original_name(manifest_columns[i]), seen),
         filtering, existing_columns)

process_manifest_columns(manifest_columns, filtering, existing_columns) ==
  ProcessColumnsFrom(manifest_columns, 1, EmptySeen, filtering,
                     existing_columns)

\* get_new_columns without the filter on existing_columns
get_new_columns_All(existing_columns, manifest_columns) ==
  process_manifest_columns(manifest_columns, FALSE, {})

get_new_columns(existing_columns, manifest_columns) ==
  process_manifest_columns(manifest_columns, TRUE, existing_columns)

\* create_column_mapping: the dict original_name -> normalized_name; a later
\* column of the same original name overwrites an earlier one
ColumnMappingFrom(columns) ==
  [o \in {columns[i].original_name : i \in 1..Len(columns)} |->
     columns[CHOOSE i \in 1..Len(columns) :
               /\ columns[i].original_name = o
               /\ \A j \in 1..Len(columns) :
                    columns[j].original_name = o => j <= i].normalized_name]

create_column_mapping(manifest_columns) ==
  ColumnMappingFrom(process_manifest_columns(manifest_columns, FALSE, {}))

\* sorted(..., key=lambda x: (x.category, x.normalized_name))
KeyLess(a, b) ==
  IF a.category = b.category
    THEN StrLess(a.normalized_name, b.normalized_name)
    ELSE StrLess(a.category, b.category)

RECURSIVE InsertSorted(_, _)
InsertSorted(s, x) ==
  IF s = <<>> THEN <<x>>
  ELSE IF KeyLess(x, Head(s)) THEN <<x>> \o s
  ELSE <<Head(s)>> \o InsertSorted(Tail(s), x)

RECURSIVE SortColumns(_)
SortColumns(s) ==
  IF s = <<>> THEN <<>>
  ELSE InsertSorted(SortColumns(SubSeq(s, 1, Len(s) - 1)), s[Len(s)])

\* the loop of get_unified_schema over the columns of all manifests, in
\* order: seen_normalized_names is shared by all manifests, all_columns
\* keeps the first definition of each original_name
RECURSIVE UnifyFrom(_, _, _, _)
\* the body of the loop for column i, whose resolved name is res.name
UnifyColumn(cols, i, res, all_columns) ==
  UnifyFrom(cols, i + 1, res.seen,
            IF \E k \in 1..Len(all_columns) :
                 all_columns[k].original_name = OriginalName(cols[i])
              THEN all_columns
              ELSE Append(all_columns, ColumnDefinition(cols[i], res.name)))

UnifyFrom(cols, i, seen, all_columns) ==
  IF i > Len(cols) THEN all_columns
  ELSE UnifyColumn(
         cols, i,
         resolve_duplicate_name(normalized_original_name(cols[i]), seen),
         all_columns)

RECURSIVE Flatten(_)
Flatten(lists) ==
  IF lists = <<>> THEN <<>> ELSE Head(lists) \o Flatten(Tail(lists))

\* get_unified_schema with all_columns a list that keeps every occurrence
get_unified_schema_NoDedup(column_lists) ==
  SortColumns(process_manifest_columns(Flatten(column_lists), FALSE, {}))

\* get_unified_schema over the column lists of the given manifests
get_unified_schema(column_lists) ==
  SortColumns(UnifyFrom(Flatten(column_lists), 1, EmptySeen, <<>>))

\* ------------------------------------------------------------------------
\* The manifests published in the bucket (inputs of the program)
\* ------------------------------------------------------------------------
\* number of billing periods of the model
MaxPeriod == 2

\* the largest position at which an injected statement failure can strike
\* within one schema-ensure step
MaxFaultPoint == 2

Periods == 1..MaxPeriod

\* an absent start_date / end_date argument (None)
NoDate == 0

\* the value of bill_billing_period_start_date in a row that has none (NULL)
NullPeriod == 0

Manifests == {"mX", "mA1", "mA2"}

\* One row of the state database per manifest id: billing_period, csv_files
\* and columns_schema as save_manifest stores them.  mA1 and mA2 are two
\* executions of the same billing period; mX declares a column whose
\* normalized name is execution_id.
Catalog ==
  [m \in Manifests |->
     CASE m = "mX"  -> [billing_period |-> 1,
                        csv_files      |-> <<"x1">>,
                        columns_schema |-> <<ColBill, ColExec>>]
       [] m = "mA1" -> [billing_period |-> 2,
                        csv_files      |-> <<"a1", "a2">>,
                        columns_schema |-> <<ColBill, ColItem>>]
       [] m = "mA2" -> [billing_period |-> 2,
                        csv_files      |-> <<"c1">>,
                        columns_schema |-> <<ColBill, ColItem, ColTag>>]]

\* number of data rows in each data file
RowsInFile(f) == IF f = "a1" THEN 2 ELSE 1

FilesOf(m) == {Catalog[m].csv_files[i] : i \in 1..Len(Catalog[m].csv_files)}

\* the header line of the data files of manifest m: columns of the manifest
\* as category/name, in order.  The data file of mX carries the first column
\* only.
HeaderOf(m) ==
  LET columns == IF m = "mX" THEN <<ColBill>> ELSE Catalog[m].columns_schema
  IN  [i \in 1..Len(columns) |-> OriginalName(columns[i])]

\* column names that the SQL of the loader spells out
ExecutionIdColumn == <<"e","x","e","c","u","t","i","o","n","_","i","d">>

BillingPeriodStartColumn ==
  <<"b","i","l","l","_","b","i","l","l","i","n","g","_","p","e","r","i","o",
    "d","_","s","t","a","r","t","_","d","a","t","e">>

\* per manifest, computed once
ColumnMappingOf == [m \in Manifests |->
                      create_column_mapping(Catalog[m].columns_schema)]

ManifestStates ==
  {"discovered", "downloading", "staged", "loading", "loaded", "failed"}

\* a manifest id without a row in the state database
Absent == "absent"

NoManifest == "none"

\* ------------------------------------------------------------------------
\* State
\* ------------------------------------------------------------------------
VARIABLES
  bucket,          \* manifest objects that the bucket listing returns
  state_db,        \* manifests.state per manifest id (Absent: no row)
  staging_dirs,    \* manifests with a directory staging/{period}/{id}
  staging_files,   \* <<id, file>>: the file is in staging/{period}/{id}/
  table_columns,   \* columns of the DuckDB table; {} when there is no table
  table_rows,      \* rows of the DuckDB table (a bag)
  pc,              \* position of the running command
  queue,           \* manifests still to process in the running batch
  cur,             \* manifest being extracted or loaded
  file_idx,        \* index into csv_files in the loop of load_manifest
  total_files,     \* len(csv_files) as the except clause sees it
  total_rows,      \* total_rows of load_manifest
  loaded_files,    \* loaded_files of load_manifest
  inserted,        \* rows inserted by the running load_manifest
  result,          \* what the last load_manifest returned
  load_stats,      \* counters and results of the last load_billing_data
  steps,           \* steps completed by the running load_manifest
  pre_partition,   \* partition of cur's billing period when the load began
  last_load,       \* the previous returns of load_manifest
  last_discovery,  \* inputs and output of the last discover_manifests
  extract_stats,   \* the stats of the running extract_billing_files
  schema_input,    \* arguments of a call of the schema manager
  schema_output,   \* the schema manager function called and what it returned
  parquet_files,   \* the files of the parquet directory, by name
  last_export,     \* the last export of the ParquetExporter and its status
  remote_table,    \* whether the BigQuery table exists
  remote_rows,     \* rows of the BigQuery table (a bag)
  last_sync,       \* the last load of the BigQueryLoader and its status
  monthly,         \* position and counters of process_monthly
  parsed,          \* a manifest document and the CURManifest made from it
  command,         \* the command line being handled and how it ended
  dry_run          \* the run of run_pipeline with --dry-run and how it ended

vars == <<bucket, state_db, staging_dirs, staging_files, table_columns, table_rows,
          pc, queue, cur, file_idx, total_files, total_rows, loaded_files,
          inserted, result, load_stats, steps, pre_partition, last_load,
          last_discovery, extract_stats, schema_input, schema_output, parquet_files,
          last_export, remote_table, remote_rows, last_sync, monthly,
          parsed, command, dry_run>>

\* the state of the commands discover, extract and load
pipeline_vars == <<bucket, state_db, staging_dirs, staging_files,
                   table_columns, table_rows, pc, queue, cur, file_idx,
                   total_files, total_rows, loaded_files, inserted, result, load_stats,
                   steps, pre_partition, last_load, last_discovery,
                   extract_stats>>

schema_vars == <<schema_input, schema_output>>

export_vars == <<parquet_files, last_export>>

sync_vars == <<remote_table, remote_rows, last_sync>>

\* the model parser and the command handlers
cli_vars == <<parsed, command, dry_run>>

\* what the commands discover, extract and load leave alone
aux_vars == <<schema_vars, export_vars, sync_vars, monthly, cli_vars>>

db_vars == <<table_columns, table_rows>>

staging_vars == <<staging_dirs, staging_files>>

load_vars == <<file_idx, total_files, total_rows, loaded_files, inserted,
               steps, pre_partition>>

BillingPeriod(m) == Catalog[m].billing_period

\* rows of the table whose bill_billing_period_start_date lies in period p
Partition(rows, p) ==
  [r \in {x \in DOMAIN rows : x.period = p} |-> rows[r]]

ColumnNames(columns) == {c.name : c \in columns}

NoResult ==
  [manifest_id |-> NoManifest, billing_period |-> NoDate, files_loaded |-> 0,
   total_files |-> 0, rows_loaded |-> 0, status |-> "none", error |-> "none"]

\* stats of extract_billing_files before its loop
NoExtract ==
  [manifests_processed |-> 0, files_downloaded |-> 0, errors |-> 0,
   failed_downloads |-> 0]

\* all_manifests and the counters of load_billing_data when no batch runs
NoStats ==
  [all_manifests |-> <<>>, total_manifests |-> 0, loaded_manifests |-> 0,
   failed_manifests |-> 0, total_rows |-> 0, results |-> <<>>]

NoLoad ==
  [manifest_id |-> NoManifest, partition |-> EmptyBag, success |-> FALSE,
   repeat |-> FALSE, prev_partition |-> EmptyBag, prev_success |-> FALSE]

\* the bucket holds one manifest object per billing period: at first mX and
\* mA1; the vendor then republishes period 2 as mA2
InitialBucket == {"mX", "mA1"}

NoDiscovery ==
  [called |-> FALSE, listing_failed |-> FALSE, raised |-> FALSE,
   checker |-> "none", listed |-> {}, unparseable |-> {}, loaded |-> <<>>,
   returned |-> {}]

\* no call of the schema manager recorded
NoSchemaInput ==
  [column_name |-> <<>>, column_lists |-> <<>>, existing_columns |-> {}]

NoSchemaOutput ==
  [op |-> "none", name |-> <<>>, columns |-> <<>>, mapping |-> {}]

SchemaIdle ==
  /\ schema_input = NoSchemaInput
  /\ schema_output = NoSchemaOutput

\* the names of the parquet directory: <<period, id>> stands for
\* {period}_{id}_aws_billing.parquet, <<period, NoManifest>> for
\* {period}_aws_billing.parquet
ExecutionFile(m) == <<BillingPeriod(m), m>>

PeriodFile(billing_period) == <<billing_period, NoManifest>>

FileNames ==
  {ExecutionFile(m) : m \in Manifests} \cup {PeriodFile(p) : p \in Periods}

NoFile == [exists |-> FALSE, rows |-> EmptyBag]

NoExport ==
  [called |-> FALSE, name |-> PeriodFile(NoDate), overwrite |-> FALSE,
   before |-> NoFile, source |-> EmptyBag, status |-> "none"]

ExportIdle ==
  /\ parquet_files = [n \in FileNames |-> NoFile]
  /\ last_export = NoExport

NoSync ==
  [called |-> FALSE, name |-> PeriodFile(NoDate), overwrite |-> FALSE,
   execution_ids |-> {}, held |-> {}, before |-> EmptyBag,
   status |-> "none", count |-> 0]

SyncIdle ==
  /\ remote_table = FALSE
  /\ remote_rows = EmptyBag
  /\ last_sync = NoSync

\* no run of process_monthly: the manifests given, the months of
\* sorted_months still to process, overwrite_parquet and monthly_results
NoMonthly ==
  [pc |-> "idle", manifests |-> <<>>, months |-> <<>>,
   overwrite |-> FALSE, results |-> <<>>]

MonthlyIdle == monthly = NoMonthly

\* no manifest document parsed: the version, the year, month and form of
\* billingPeriod.start, its text, and the billing_period of the CURManifest
NoParsed ==
  [pc |-> "idle", version |-> "v2", year |-> 0, month |-> 0, form |-> "none",
   billing_period_start |-> <<>>, billing_period |-> <<>>]

\* no command line handled: the handler, the fields missing from the
\* configuration, args.start_date and args.end_date, the stores accessed
\* so far and the exit status of the process
NoCommand ==
  [pc |-> "idle", name |-> "none", missing |-> {}, start_date |-> <<>>,
   end_date |-> <<>>, accessed |-> {}, exit |-> -1]

\* no dry run: the entry point, start_date and end_date, the manifests that
\* discovery found or the dry run reported, and the exit status
NoDryRun ==
  [pc |-> "idle", entry |-> "none", start_date |-> 0, end_date |-> 0,
   manifests |-> {}, exit |-> -1]

CliIdle == parsed = NoParsed /\ command = NoCommand /\ dry_run = NoDryRun

\* nothing recorded, exported or synced yet, no monthly run
AuxInit == SchemaIdle /\ ExportIdle /\ SyncIdle /\ MonthlyIdle /\ CliIdle

\* no command is running and none has run
CommandsIdle ==
  /\ pc = "idle"
  /\ queue = <<>>
  /\ cur = NoManifest
  /\ file_idx = 1
  /\ total_files = 0
  /\ total_rows = 0
  /\ loaded_files = 0
  /\ inserted = 0
  /\ result = NoResult
  /\ load_stats = NoStats
  /\ steps = <<>>
  /\ pre_partition = EmptyBag
  /\ last_load = NoLoad
  /\ last_discovery = NoDiscovery
  /\ extract_stats = NoExtract

\* a fresh installation: empty state database, no staging, no table
PipelineInit ==
  /\ bucket = InitialBucket
  /\ state_db = [m \in Manifests |-> Absent]
  /\ staging_dirs = {}
  /\ staging_files = {}
  /\ table_columns = {}
  /\ table_rows = EmptyBag
  /\ CommandsIdle

Init == PipelineInit /\ AuxInit

\* ------------------------------------------------------------------------
\* StateDB queries
\* ------------------------------------------------------------------------
Permutations_(S) ==
  {f \in [1..Cardinality(S) -> S] :
     \A i, j \in 1..Cardinality(S) : i # j => f[i] # f[j]}

\* get_manifests_by_state: ORDER BY billing_period DESC, ties in any order
get_manifests_by_state(state) ==
  {f \in Permutations_({m \in Manifests : state_db[m] = state}) :
     \A i, j \in DOMAIN f :
       i < j => BillingPeriod(f[i]) >= BillingPeriod(f[j])}

InDateRange(m, start_date, end_date) ==
  /\ ~(start_date # NoDate /\ BillingPeriod(m) < start_date)
  /\ ~(end_date # NoDate /\ BillingPeriod(m) > end_date)

\* get_discovered_manifests_by_date_range: ORDER BY billing_period ASC
get_discovered_manifests_by_date_range(start_date, end_date) ==
  {f \in Permutations_({m \in Manifests :
                          /\ state_db[m] = "discovered"
                          /\ InDateRange(m, start_date, end_date)}) :
     \A i, j \in DOMAIN f :
       i < j => BillingPeriod(f[i]) <= BillingPeriod(f[j])}

\* ------------------------------------------------------------------------
\* Discovery (ManifestDiscoveryService, StateChecker)
\* ------------------------------------------------------------------------
\* StateChecker._query_duckdb: billing period -> execution id out of the
\* DISTINCT pairs of the table, the first pair found per period; {} when the
\* query fails (no table, or a column of the query is missing)
query_duckdb ==
  IF {ExecutionIdColumn, BillingPeriodStartColumn}
        \subseteq ColumnNames(table_columns)
    THEN LET periods == {r.period : r \in DOMAIN table_rows} \ {NullPeriod}
         IN  {f \in [periods -> Manifests] :
                \A p \in periods :
                  \E r \in DOMAIN table_rows :
                    r.period = p /\ r.execution_id = f[p]}
    ELSE {<<>>}

\* StateChecker._query_bigquery: the remote table is outside the pipeline,
\* its map can be any map from billing periods to execution ids
query_bigquery == UNION {[P -> Manifests] : P \in SUBSET Periods}

\* StateChecker.get_loaded_execution_ids: BigQuery when it is configured,
\* DuckDB when it is not or when its query fails; no checker: nothing is
\* filtered
get_loaded_execution_ids(checker) ==
  CASE checker = "bigquery" -> query_bigquery \cup query_duckdb
    [] checker = "duckdb"   -> query_duckdb
    [] OTHER                -> {<<>>}

\* FilterLoaded with the execution id left out of the comparison
FilterLoaded_ByPeriod(manifests, loaded_execution_ids) ==
  {m \in manifests : BillingPeriod(m) \notin DOMAIN loaded_execution_ids}

\* the filter of discover_manifests
FilterLoaded(manifests, loaded_execution_ids) ==
  {m \in manifests :
     ~(/\ BillingPeriod(m) \in DOMAIN loaded_execution_ids
       /\ loaded_execution_ids[BillingPeriod(m)] = m)}

\* _find_manifests_by_pattern without the try/except around the parse of
\* one key
find_manifests_by_pattern_Abort(listing_fails, listed, unparseable) ==
  IF listing_fails \/ unparseable # {}
    THEN [raised |-> TRUE, manifests |-> {}]
    ELSE [raised |-> FALSE, manifests |-> listed]

\* _find_manifests_by_pattern: when the listing fails the error is raised;
\* otherwise every listed key is parsed, and a key that cannot be downloaded
\* or parsed is skipped
find_manifests_by_pattern(listing_fails, listed, unparseable) ==
  IF listing_fails
    THEN [raised |-> TRUE, manifests |-> {}]
    ELSE [raised |-> FALSE, manifests |-> listed \ unparseable]

\* save_manifest: INSERT OR REPLACE with state 'discovered'
save_manifest(db, m) == [db EXCEPT ![m] = "discovered"]

\* discover_manifests.  listing_fails: the listing raises (credentials,
\* bucket); listed: the manifest objects in the bucket; unparseable: the
\* ones whose download or parse fails
DiscoverOp(listing_fails, listed, unparseable, checker, loaded) ==
  /\ pc = "idle"
  /\ loaded \in get_loaded_execution_ids(checker)
  /\ LET found == find_manifests_by_pattern(listing_fails, listed,
                                            unparseable)
     IN  IF found.raised
           THEN UNCHANGED state_db
           ELSE state_db' = [m \in Manifests |->
                               IF m \in FilterLoaded(found.manifests, loaded)
                                 THEN save_manifest(state_db, m)[m]
                                 ELSE state_db[m]]
  /\ last_load' = NoLoad
  /\ UNCHANGED <<bucket, staging_vars, db_vars, pc, queue, cur, load_vars,
                 result, load_stats,
                 extract_stats, aux_vars>>

\* what the caller of discover_manifests observes, next to the inputs
DiscoveryRecord(listing_fails, listed, unparseable, checker, loaded) ==
  LET found == find_manifests_by_pattern(listing_fails, listed, unparseable)
  IN  [called         |-> TRUE,
       listing_failed |-> listing_fails,
       raised         |-> found.raised,
       checker        |-> checker,
       listed         |-> listed,
       unparseable    |-> unparseable,
       loaded         |-> loaded,
       returned       |-> IF found.raised THEN {}
                          ELSE FilterLoaded(found.manifests, loaded)]

\* the deployments: no state checker, DuckDB only, BigQuery configured
LocalCheckers == {"none", "duckdb"}

Checkers == LocalCheckers \cup {"bigquery"}

\* discover_manifests on the bucket as it is, in a local deployment
Discover ==
  \E listing_fails \in BOOLEAN, checker \in LocalCheckers :
    \E loaded \in get_loaded_execution_ids(checker) :
      /\ DiscoverOp(listing_fails, bucket, {}, checker, loaded)
      /\ UNCHANGED last_discovery

\* the vendor republishes a billing period under a new execution id: the
\* manifest object of the period is replaced
Publish ==
  /\ pc = "idle"
  /\ \E m \in Manifests \ bucket :
       /\ m = "mA2"
       /\ bucket' = {b \in bucket : BillingPeriod(b) # BillingPeriod(m)}
                       \cup {m}
  /\ UNCHANGED <<state_db, staging_vars, db_vars, pc, queue, cur, load_vars,
                 result, load_stats, last_load, last_discovery, extract_stats, aux_vars>>

\* ------------------------------------------------------------------------
\* Extraction (BillingExtractorService)
\* ------------------------------------------------------------------------
\* get_staged_execution_ids: the sub-directories of staging/{period}
get_staged_execution_ids(billing_period) ==
  {m \in staging_dirs : BillingPeriod(m) = billing_period}

\* clean_old_execution_ids: the directories that rmtree removes
clean_old_execution_ids(dirs, billing_period, keep_execution_id) ==
  {m \in dirs : BillingPeriod(m) = billing_period /\ m # keep_execution_id}

\* the data files whose download can fail
FlakyFiles == {"a2"}

\* an extraction that stages a manifest whatever was downloaded
DownloadedState_Staged(downloaded, csv_files) == "staged"

\* the state after the downloads of a manifest: 'staged' if all files
\* were downloaded
DownloadedState(downloaded, csv_files) ==
  IF Cardinality(downloaded) = Len(csv_files) THEN "staged" ELSE "failed"

\* the stats after the downloads of a manifest: a failed download_file and
\* a partial download are errors; failed_downloads keeps the number of
\* download_file calls that raised
DownloadedStats(stats, downloaded, csv_files) ==
  [manifests_processed |-> stats.manifests_processed + 1,
   files_downloaded |-> stats.files_downloaded + Cardinality(downloaded),
   errors |-> stats.errors + (Len(csv_files) - Cardinality(downloaded))
                + (IF Cardinality(downloaded) = Len(csv_files)
                     THEN 0 ELSE 1),
   failed_downloads |-> stats.failed_downloads
                          + (Len(csv_files) - Cardinality(downloaded))]

\* the sets of files of manifest m that one extraction can bring down
DownloadOutcomes(m) ==
  {FilesOf(m) \ failing : failing \in SUBSET (FilesOf(m) \cap FlakyFiles)}

\* extract_billing_files up to the loop
ExtractBegin ==
  /\ pc = "idle"
  /\ \E start_date \in {NoDate} \cup Periods,
        end_date \in {NoDate} \cup Periods :
       \E manifests \in
            get_discovered_manifests_by_date_range(start_date, end_date) :
         /\ manifests # <<>>
         /\ queue' = manifests
  /\ pc' = "extract"
  /\ cur' = NoManifest
  /\ last_load' = NoLoad
  /\ extract_stats' = NoExtract
  /\ UNCHANGED <<bucket, state_db, staging_vars, db_vars, load_vars,
                 result, load_stats, last_discovery, aux_vars>>

\* one iteration of the loop up to the state update to 'downloading'
ExtractManifest ==
  /\ pc = "extract"
  /\ queue # <<>>
  /\ LET m == Head(queue)
     IN  IF m \in get_staged_execution_ids(BillingPeriod(m))
           THEN /\ queue' = Tail(queue)
                /\ extract_stats' =
                     [extract_stats EXCEPT !.manifests_processed = @ + 1]
                /\ UNCHANGED <<state_db, pc, cur>>
           ELSE /\ state_db' = [state_db EXCEPT ![m] = "downloading"]
                /\ pc' = "download"
                /\ cur' = m
                /\ queue' = Tail(queue)
                /\ UNCHANGED extract_stats
  /\ UNCHANGED <<bucket, staging_vars, db_vars, load_vars, result, load_stats,
                 last_load, last_discovery, aux_vars>>

\* the rest of the iteration: mkdir, the downloads, the final state.
\* mkdir_fails: the manifest-level except clause; downloaded: the files
\* whose download_file call succeeded
DownloadFiles ==
  /\ pc = "download"
  /\ \E mkdir_fails \in BOOLEAN, downloaded \in DownloadOutcomes(cur) :
       IF mkdir_fails
         THEN /\ state_db' = [state_db EXCEPT ![cur] = "failed"]
              /\ extract_stats' = [extract_stats EXCEPT !.errors = @ + 1]
              /\ UNCHANGED staging_vars
         ELSE LET files_now == staging_files \cup
                                 {<<cur, f>> : f \in downloaded}
                  dirs_now  == staging_dirs \cup {cur}
                  removed   == clean_old_execution_ids(
                                 dirs_now, BillingPeriod(cur), cur)
              IN  /\ state_db' =
                       [state_db EXCEPT ![cur] =
                          DownloadedState(downloaded,
                                          Catalog[cur].csv_files)]
                  /\ extract_stats' =
                       DownloadedStats(extract_stats, downloaded,
                                       Catalog[cur].csv_files)
                  /\ IF Cardinality(downloaded)
                          = Len(Catalog[cur].csv_files)
                       THEN /\ staging_dirs' = dirs_now \ removed
                            /\ staging_files' =
                                 {e \in files_now : e[1] \notin removed}
                       ELSE /\ staging_dirs' = dirs_now
                            /\ staging_files' = files_now
  /\ pc' = "extract"
  /\ cur' = NoManifest
  /\ UNCHANGED <<bucket, db_vars, queue, load_vars, result, load_stats, last_load,
                 last_discovery, aux_vars>>

\* extract_billing_files: the loop is over and the stats are returned
ExtractEnd ==
  /\ pc = "extract"
  /\ queue = <<>>
  /\ pc' = "idle"
  /\ extract_stats' = NoExtract
  /\ UNCHANGED <<bucket, state_db, staging_vars, db_vars, queue, cur,
                 load_vars, result, load_stats, last_load, last_discovery,
                 aux_vars>>

\* ------------------------------------------------------------------------
\* Load (DuckDBLoader)
\* ------------------------------------------------------------------------
TableColumn(col_def) ==
  [name |-> col_def.normalized_name, type |-> col_def.duckdb_type]

\* CREATE TABLE IF NOT EXISTS with the columns of schema: DuckDB rejects an
\* empty column list and a repeated column name
create_table(schema) ==
  LET names == {schema[i].normalized_name : i \in 1..Len(schema)}
  IN  IF schema # <<>> /\ Cardinality(names) = Len(schema)
        THEN [ok |-> TRUE,
              columns |-> {TableColumn(schema[i]) : i \in 1..Len(schema)}]
        ELSE [ok |-> FALSE, columns |-> {}]

\* the ALTER TABLE ADD COLUMN statements of generate_alter_table_sql, run
\* one by one from statement i; statement number fault_at fails by
\* injection, and adding a column that exists fails
RECURSIVE alter_table(_, _, _, _)
alter_table(columns, new_columns, i, fault_at) ==
  IF i > Len(new_columns) THEN [ok |-> TRUE, columns |-> columns]
  ELSE IF i = fault_at
         \/ new_columns[i].normalized_name \in ColumnNames(columns)
    THEN [ok |-> FALSE, columns |-> columns]
    ELSE alter_table(columns \cup {TableColumn(new_columns[i])},
                     new_columns, i + 1, fault_at)

\* ensure_table_schema after the table exists: get_new_columns and the
\* ALTER TABLE statements
add_new_columns(columns, manifest_columns, fault) ==
  alter_table(columns,
              get_new_columns(ColumnNames(columns), manifest_columns),
              1, fault)

\* ensure_table_schema when there is no table: CREATE TABLE is statement 1
create_then_add(created, manifest_columns, fault) ==
  IF fault = 1 \/ ~created.ok
    THEN [ok |-> FALSE, columns |-> {}]
    ELSE add_new_columns(created.columns, manifest_columns, fault - 1)

\* ensure_table_schema as CREATE OR REPLACE TABLE with the columns of the
\* manifest
ensure_table_schema_Recreate(existing, manifest_columns, known, fault) ==
  LET columns == process_manifest_columns(manifest_columns, FALSE, {})
  IN  [ok |-> fault = 0,
       columns |-> IF fault = 0
                     THEN {TableColumn(columns[i]) : i \in 1..Len(columns)}
                     ELSE existing]

\* ensure_table_schema.  known: the column lists of the discovered and
\* staged manifests; fault: 0, or the number of the statement of this call
\* that fails by injection
ensure_table_schema(existing, manifest_columns, known, fault) ==
  IF ColumnNames(existing) # {}
    THEN add_new_columns(existing, manifest_columns, fault)
    ELSE create_then_add(create_table(get_unified_schema(known)),
                         manifest_columns, fault)

\* the column list of the INSERT of load_csv_file: execution_id, then the
\* header translated through column_mapping
InsertColumnsFrom(header, column_mapping) ==
  <<ExecutionIdColumn>> \o
  [i \in 1..Len(header) |->
     IF header[i] \in DOMAIN column_mapping
       THEN column_mapping[header[i]]
       ELSE normalize_column_name(header[i])]

InsertColumns(m) == InsertColumnsFrom(HeaderOf(m), ColumnMappingOf[m])

\* computed once per manifest
InsertColumnsOf == [m \in Manifests |-> InsertColumns(m)]

\* the rows that read_csv yields for one data file, tagged with the
\* execution id; the billing-period column of a row is filled when the
\* header has it
FileRowsFrom(m, f, cols) ==
  SetToBag({[execution_id |-> m,
             period |-> IF \E i \in 1..Len(cols) :
                             cols[i] = BillingPeriodStartColumn
                          THEN BillingPeriod(m) ELSE NullPeriod,
             file |-> f, line |-> n] : n \in 1..RowsInFile(f)})

FileRows(m, f) == FileRowsFrom(m, f, InsertColumnsOf[m])

\* the INSERT binds: every listed column is a column of the table and no
\* column is listed twice
InsertBinds(names, cols) ==
  /\ \A i \in 1..Len(cols) : cols[i] \in names
  /\ \A i, j \in 1..Len(cols) : i # j => cols[i] # cols[j]

InsertAccepted(columns, m) ==
  InsertBinds(ColumnNames(columns), InsertColumnsOf[m])

\* the loop of load_manifest without its csv_path.exists() test
path_exists_Always(m, f) == TRUE

\* csv_path.exists() in the loop of load_manifest
path_exists(m, f) == <<m, f>> \in staging_files

\* csv_path.exists() at the start of load_csv_file
csv_file_found(m, f) == <<m, f>> \in staging_files

\* the DELETE of load_manifest binds: the date column is a timestamp column
DeleteAccepted(columns) ==
  [name |-> BillingPeriodStartColumn, type |-> "TIMESTAMP"] \in columns

\* load_manifest without the DELETE
delete_partition_KeepsRows(rows, billing_period) == rows

\* a DELETE restricted to the rows of the execution id being loaded
delete_partition_SameExecution(rows, billing_period) ==
  [r \in {x \in DOMAIN rows :
            ~(x.period = billing_period /\ x.execution_id = cur)} |-> rows[r]]

\* a DELETE skipped when the period already holds the execution id being
\* loaded
delete_partition_UnlessSame(rows, billing_period) ==
  IF \E x \in DOMAIN rows :
       x.period = billing_period /\ x.execution_id = cur
    THEN rows
    ELSE [r \in {x \in DOMAIN rows : x.period # billing_period} |-> rows[r]]

\* DELETE FROM table WHERE year and month of bill_billing_period_start_date
\* are those of billing_period
delete_partition(rows, billing_period) ==
  [r \in {x \in DOMAIN rows : x.period # billing_period} |-> rows[r]]

\* load_billing_data with 'discovered' among the states it loads
StateRank_Discovered(state) ==
  CASE state = "discovered" -> 1 [] state = "staged" -> 1
    [] state = "loading" -> 2 [] state = "loaded" -> 3
    [] state = "failed" -> 4 [] OTHER -> 0

\* the order in which load_billing_data loads: the lists of the states
\* staged, loading, loaded, failed one after the other, filtered, then
\* sorted (stably) by billing period, newest first
StateRank(state) ==
  CASE state = "staged" -> 1 [] state = "loading" -> 2
    [] state = "loaded" -> 3 [] state = "failed" -> 4 [] OTHER -> 0

LoadOrders(start_date, end_date) ==
  {f \in Permutations_({m \in Manifests :
                          /\ StateRank(state_db[m]) > 0
                          /\ InDateRange(m, start_date, end_date)}) :
     \A i, j \in DOMAIN f :
       i < j =>
         \/ BillingPeriod(f[i]) > BillingPeriod(f[j])
         \/ /\ BillingPeriod(f[i]) = BillingPeriod(f[j])
            /\ StateRank(state_db[f[i]]) <= StateRank(state_db[f[j]])}

\* load_billing_data up to the loop
LoadBillingData ==
  /\ pc = "idle"
  /\ \E start_date \in {NoDate} \cup Periods,
        end_date \in {NoDate} \cup Periods :
       \E all_manifests \in LoadOrders(start_date, end_date) :
         /\ all_manifests # <<>>
         /\ queue' = all_manifests
         /\ load_stats' =
              [NoStats EXCEPT !.all_manifests = all_manifests,
                              !.total_manifests = Len(all_manifests)]
  /\ pc' = "load"
  /\ cur' = NoManifest
  /\ UNCHANGED <<bucket, state_db, staging_vars, db_vars, load_vars,
                 result, last_load, last_discovery, extract_stats, aux_vars>>

\* load_manifest: the state update to 'loading'
LoadManifestBegin ==
  /\ pc = "load"
  /\ queue # <<>>
  /\ cur' = Head(queue)
  /\ queue' = Tail(queue)
  /\ state_db' = [state_db EXCEPT ![Head(queue)] = "loading"]
  /\ pc' = "ensure_schema"
  /\ file_idx' = 1
  /\ total_files' = 0
  /\ total_rows' = 0
  /\ loaded_files' = 0
  /\ inserted' = 0
  /\ steps' = <<>>
  /\ pre_partition' = Partition(table_rows, BillingPeriod(Head(queue)))
  /\ UNCHANGED <<bucket, staging_vars, db_vars, result, load_stats, last_load,
                 last_discovery, extract_stats, aux_vars>>

\* a loop body that keeps the results of the loaded manifests only
CountResult_SuccessOnly(stats, res) ==
  IF res.status = "success"
    THEN [stats EXCEPT !.results = Append(@, res),
                       !.loaded_manifests = @ + 1,
                       !.total_rows = @ + res.rows_loaded]
    ELSE stats

\* the loop body of load_billing_data after load_manifest returned res
CountResult(stats, res) ==
  [stats EXCEPT
     !.results = Append(@, res),
     !.loaded_manifests = IF res.status = "success" THEN @ + 1 ELSE @,
     !.total_rows = IF res.status = "success" THEN @ + res.rows_loaded ELSE @,
     !.failed_manifests = IF res.status = "success" THEN @ ELSE @ + 1]

\* what load_manifest leaves behind when it returns
LoadReturned(rows_after, success) ==
  /\ LET again == (last_load.manifest_id = cur)
     IN  last_load' =
           [manifest_id    |-> cur,
            partition      |-> Partition(rows_after, BillingPeriod(cur)),
            success        |-> success,
            repeat         |-> again,
            prev_partition |-> IF again THEN last_load.partition
                                        ELSE EmptyBag,
            prev_success   |-> again /\ last_load.success]
  /\ load_stats' = CountResult(load_stats, result')

\* load_manifest inside a transaction that the except clause rolls back
LoadFailed_Rollback(error) ==
  /\ state_db' = [state_db EXCEPT ![cur] = "failed"]
  /\ table_rows' =
       delete_partition(table_rows, BillingPeriod(cur)) (+) pre_partition
  /\ result' = [manifest_id    |-> cur,
                billing_period |-> BillingPeriod(cur),
                files_loaded   |-> 0,
                total_files    |-> total_files,
                rows_loaded    |-> 0,
                status         |-> "failed",
                error          |-> error]
  /\ LoadReturned(pre_partition, FALSE)
  /\ pc' = "load"

\* an except clause that returns the failure without the state update
LoadFailed_StateKept(error) ==
  /\ state_db' = state_db
  /\ table_rows' = table_rows
  /\ result' = [manifest_id    |-> cur,
                billing_period |-> BillingPeriod(cur),
                files_loaded   |-> 0,
                total_files    |-> total_files,
                rows_loaded    |-> 0,
                status         |-> "failed",
                error          |-> error]
  /\ LoadReturned(table_rows, FALSE)
  /\ pc' = "load"

\* the except clause of load_manifest: the failure is recorded, the table
\* stays as the statements before the failure left it
LoadFailed(error) ==
  /\ state_db' = [state_db EXCEPT ![cur] = "failed"]
  /\ table_rows' = table_rows
  /\ result' = [manifest_id    |-> cur,
                billing_period |-> BillingPeriod(cur),
                files_loaded   |-> 0,
                total_files    |-> total_files,
                rows_loaded    |-> 0,
                status         |-> "failed",
                error          |-> error]
  /\ LoadReturned(table_rows, FALSE)
  /\ pc' = "load"

\* the columns_schema of the manifests that get_unified_schema reads
KnownColumns(manifests) ==
  [i \in 1..Len(manifests) |-> Catalog[manifests[i]].columns_schema]

\* load_manifest: ensure_table_schema and the parse of csv_files
EnsureTableSchema ==
  /\ pc = "ensure_schema"
  /\ \E discovered \in get_manifests_by_state("discovered"),
        staged \in get_manifests_by_state("staged"),
        fault \in 0..MaxFaultPoint :
       \E ensured \in {ensure_table_schema(
                          table_columns, Catalog[cur].columns_schema,
                          KnownColumns(discovered \o staged), fault)} :
         /\ table_columns' = ensured.columns
         /\ IF ensured.ok
              THEN /\ pc' = "delete"
                   /\ steps' = Append(steps, "schema")
                   /\ total_files' = Len(Catalog[cur].csv_files)
                   /\ UNCHANGED <<state_db, table_rows, result, load_stats, last_load>>
              ELSE /\ LoadFailed("schema")
                   /\ UNCHANGED <<steps, total_files>>
  /\ UNCHANGED <<bucket, staging_vars, queue, cur, file_idx, total_rows,
                 loaded_files, inserted, pre_partition, last_discovery, extract_stats, aux_vars>>

\* load_manifest: the DELETE of the billing period
DeletePartition ==
  /\ pc = "delete"
  /\ \E fault \in BOOLEAN :
       IF ~fault /\ DeleteAccepted(table_columns)
         THEN /\ table_rows' =
                   delete_partition(table_rows, BillingPeriod(cur))
              /\ pc' = "insert"
              /\ steps' = Append(steps, "delete")
              /\ UNCHANGED <<state_db, result, load_stats, last_load>>
         ELSE /\ LoadFailed("delete")
              /\ UNCHANGED steps
  /\ UNCHANGED <<bucket, staging_vars, table_columns, queue, cur, file_idx,
                 total_files, total_rows, loaded_files, inserted,
                 pre_partition, last_discovery, extract_stats, aux_vars>>

\* load_manifest: one iteration of the loop over csv_files, with the call
\* of load_csv_file
LoadCsvFile ==
  /\ pc = "insert"
  /\ file_idx <= Len(Catalog[cur].csv_files)
  /\ LET csv_file == Catalog[cur].csv_files[file_idx]
     IN  IF ~path_exists(cur, csv_file)
           THEN \* Warning: File not found in staging
                /\ file_idx' = file_idx + 1
                /\ UNCHANGED <<state_db, table_rows, pc, total_rows,
                               loaded_files, inserted, result, load_stats, steps,
                               last_load>>
           ELSE IF ~csv_file_found(cur, csv_file)
             THEN /\ LoadFailed("file_not_found")
                  /\ UNCHANGED <<file_idx, total_rows, loaded_files,
                                 inserted, steps>>
             ELSE \E fault \in BOOLEAN :
                    IF ~fault /\ InsertAccepted(table_columns, cur)
                      THEN \E rows_after \in
                                {table_rows (+) FileRows(cur, csv_file)} :
                               /\ table_rows' = rows_after
                               /\ total_rows' = total_rows
                                                + BagCardinality(rows_after)
                               /\ loaded_files' = loaded_files + 1
                               /\ inserted' = inserted
                                              + RowsInFile(csv_file)
                               /\ file_idx' = file_idx + 1
                               /\ steps' = Append(steps, "insert")
                               /\ UNCHANGED <<state_db, pc, result, load_stats,
                                              last_load>>
                      ELSE /\ LoadFailed("insert")
                           /\ UNCHANGED <<file_idx, total_rows,
                                          loaded_files, inserted, steps>>
  /\ UNCHANGED <<bucket, staging_vars, table_columns, queue, cur, total_files,
                 pre_partition, last_discovery, extract_stats, aux_vars>>

\* load_manifest: the state update to 'loaded' and the returned statistics
LoadManifestEnd ==
  /\ pc = "insert"
  /\ file_idx > Len(Catalog[cur].csv_files)
  /\ state_db' = [state_db EXCEPT ![cur] = "loaded"]
  /\ result' = [manifest_id    |-> cur,
                billing_period |-> BillingPeriod(cur),
                files_loaded   |-> loaded_files,
                total_files    |-> Len(Catalog[cur].csv_files),
                rows_loaded    |-> total_rows,
                status         |-> "success",
                error          |-> "none"]
  /\ LoadReturned(table_rows, TRUE)
  /\ pc' = "load"
  /\ UNCHANGED <<bucket, staging_vars, db_vars, queue, cur, load_vars,
                 last_discovery, extract_stats, aux_vars>>

\* load_billing_data: the loop is over and the counters are returned; the
\* locals of the function and of the last load_manifest call are gone
LoadBillingDataEnd ==
  /\ pc = "load"
  /\ queue = <<>>
  /\ pc' = "idle"
  /\ cur' = NoManifest
  /\ file_idx' = 1
  /\ total_files' = 0
  /\ total_rows' = 0
  /\ loaded_files' = 0
  /\ inserted' = 0
  /\ steps' = <<>>
  /\ pre_partition' = EmptyBag
  /\ result' = NoResult
  /\ load_stats' = NoStats
  /\ last_load' = [last_load EXCEPT !.repeat = FALSE,
                                    !.prev_partition = EmptyBag,
                                    !.prev_success = FALSE]
  /\ UNCHANGED <<bucket, state_db, staging_vars, db_vars, queue,
                 last_discovery, extract_stats, aux_vars>>

Next ==
  \/ Publish
  \/ Discover
  \/ ExtractBegin
  \/ ExtractManifest
  \/ DownloadFiles
  \/ ExtractEnd
  \/ LoadBillingData
  \/ LoadManifestBegin
  \/ EnsureTableSchema
  \/ DeletePartition
  \/ LoadCsvFile
  \/ LoadManifestEnd
  \/ LoadBillingDataEnd

Spec == Init /\ [][Next]_vars

\* ------------------------------------------------------------------------
\* Discovery on its own: discover_manifests with every listing, every set of
\* unparseable objects and every deployment, with its inputs and its return
\* value recorded
\* ------------------------------------------------------------------------
\* the state after discover, extract and a load of billing period 2: mX is
\* staged, mA1 is loaded
LoadedSnapshot ==
  [state_db      |-> [m \in Manifests |->
                        CASE m = "mX" -> "staged" [] m = "mA1" -> "loaded"
                          [] OTHER -> Absent],
   staging_dirs  |-> {"mX", "mA1"},
   staging_files |-> {<<m, f>> \in {"mX", "mA1"} \X {"x1", "a1", "a2"} :
                        f \in FilesOf(m)},
   table_columns |-> ensure_table_schema(
                       {}, Catalog["mA1"].columns_schema,
                       <<Catalog["mX"].columns_schema>>, 0).columns,
   table_rows    |-> FileRows("mA1", "a1") (+) FileRows("mA1", "a2")]

EmptySnapshot ==
  [state_db      |-> [m \in Manifests |-> Absent],
   staging_dirs  |-> {},
   staging_files |-> {},
   table_columns |-> {},
   table_rows    |-> EmptyBag]

SnapshotReached(snapshot) ==
  /\ pc = "idle"
  /\ state_db = snapshot.state_db
  /\ staging_dirs = snapshot.staging_dirs
  /\ staging_files = snapshot.staging_files
  /\ table_columns = snapshot.table_columns
  /\ table_rows = snapshot.table_rows

InitDiscovery ==
  /\ bucket = InitialBucket
  /\ \E snapshot \in {EmptySnapshot, LoadedSnapshot} :
       /\ state_db = snapshot.state_db
       /\ staging_dirs = snapshot.staging_dirs
       /\ staging_files = snapshot.staging_files
       /\ table_columns = snapshot.table_columns
       /\ table_rows = snapshot.table_rows
  /\ pc = "idle"
  /\ queue = <<>>
  /\ cur = NoManifest
  /\ file_idx = 1
  /\ total_files = 0
  /\ total_rows = 0
  /\ loaded_files = 0
  /\ inserted = 0
  /\ result = NoResult
  /\ load_stats = NoStats
  /\ steps = <<>>
  /\ pre_partition = EmptyBag
  /\ last_load = NoLoad
  /\ last_discovery = NoDiscovery
  /\ extract_stats = NoExtract
  /\ AuxInit

\* one call of discover_manifests, with what went in and what came back
DiscoverRecorded ==
  /\ ~last_discovery.called
  /\ \E listing_fails \in BOOLEAN, listed \in SUBSET Manifests,
        checker \in Checkers :
       \E unparseable \in SUBSET listed,
          loaded \in get_loaded_execution_ids(checker) :
         /\ DiscoverOp(listing_fails, listed, unparseable, checker, loaded)
         /\ last_discovery' = DiscoveryRecord(listing_fails, listed,
                                              unparseable, checker, loaded)

NextDiscovery == DiscoverRecorded

SpecDiscovery == InitDiscovery /\ [][NextDiscovery]_vars

\* ------------------------------------------------------------------------
\* Properties of load
\* ------------------------------------------------------------------------
\* load_manifest has just returned for manifest cur
Returned == pc = "load" /\ cur # NoManifest

\* a load of cur is running or has just returned
Loading ==
  cur # NoManifest /\ pc \in {"ensure_schema", "delete", "insert", "load"}

CurPartition == Partition(table_rows, BillingPeriod(cur))

AllStaged(m) == \A f \in FilesOf(m) : <<m, f>> \in staging_files

\* C1 (idempotence of load): when load_manifest returns success for a
\* manifest twice in a row, the rows of the manifest's billing period after
\* the second load are the rows after the first load.
C1_Idempotence ==
  (Returned /\ last_load.repeat /\ last_load.success
     /\ last_load.prev_success)
    => last_load.partition = last_load.prev_partition

\* two successful loads of mA1 in a row, both data files staged and loaded
C1_Witness ==
  /\ Returned
  /\ cur = "mA1"
  /\ last_load.repeat /\ last_load.success /\ last_load.prev_success
  /\ AllStaged(cur)
  /\ BagCardinality(last_load.partition) = 3

\* C2 (replace, not append): after a successful load of manifest cur, every
\* row of its billing period carries cur's execution id; no row of an
\* execution loaded before remains.
C2_ReplaceNotAppend ==
  (Returned /\ result.status = "success")
    => \A r \in DOMAIN CurPartition : r.execution_id = cur

\* mA2 loaded with success into a period that held rows of mA1
C2_Witness ==
  /\ Returned
  /\ cur = "mA2"
  /\ result.status = "success"
  /\ \E r \in DOMAIN pre_partition : r.execution_id = "mA1"
  /\ \E r \in DOMAIN CurPartition : r.execution_id = "mA2"

ExecutionIdsOf(p) == {r.execution_id : r \in DOMAIN Partition(table_rows, p)}

StepsInOrder ==
  \A i \in DOMAIN steps :
    steps[i] = (IF i = 1 THEN "schema" ELSE IF i = 2 THEN "delete"
                ELSE "insert")

\* C4 (step ordering): the completed steps of a load are schema ensure, then
\* the delete, then the inserts; until the delete has completed no row is
\* inserted and the period is untouched; once it has completed the period
\* holds exactly the rows this load inserted, whatever it held before; a
\* load that returns success has run the delete.
C4_StepOrdering ==
  Loading =>
    /\ StepsInOrder
    /\ Len(steps) < 2 => (inserted = 0 /\ CurPartition = pre_partition)
    /\ Len(steps) >= 2 => BagCardinality(CurPartition) = inserted
    /\ (pc = "load" /\ result.status = "success") => Len(steps) >= 2

\* a successful reload of a manifest whose rows were in the table already
C4_Witness ==
  /\ Returned
  /\ result.status = "success"
  /\ \E r \in DOMAIN pre_partition : r.execution_id = cur
  /\ inserted > 0
  /\ Len(steps) >= 3

\* C5 as stated: after a failed load the failed status is recorded and the
\* prior rows of the period are deleted, whichever step failed.
C5_PriorRowsDeleted ==
  (Returned /\ result.status = "failed")
    => /\ state_db[cur] = "failed"
       /\ BagCardinality(CurPartition) = inserted

\* C5 (failure of load), amended: a failed load is one whose schema ensure,
\* delete or insert failed; the failed status is returned and recorded and
\* nothing is rolled back: after a failing insert the prior rows are deleted
\* and the rows inserted before the failure stay; after a failing schema
\* ensure or delete the prior rows are still in place.
C5_FailureNoRollback ==
  (Returned /\ result.status = "failed")
    => /\ state_db[cur] = "failed"
       /\ result.manifest_id = cur
       /\ result.error \in {"schema", "delete", "insert"}
       /\ result.error = "insert"
            => (Len(steps) >= 2 /\ BagCardinality(CurPartition) = inserted)
       /\ result.error \in {"schema", "delete"}
            => (Len(steps) < 2 /\ CurPartition = pre_partition)

\* the second insert of mA1 failed: the rows of the first file stay, the
\* rows the period held before are gone
C5_Witness ==
  /\ Returned
  /\ cur = "mA1"
  /\ result.status = "failed"
  /\ result.error = "insert"
  /\ \E r \in DOMAIN pre_partition : r.execution_id = "mA2"
  /\ inserted = 2
  /\ BagCardinality(CurPartition) = 2

PresentFiles(m) == {f \in FilesOf(m) : <<m, f>> \in staging_files}

\* C6 (missing data file): load_manifest never fails because a declared
\* data file is absent from staging; a load that returns success has loaded
\* exactly the declared files that are present, and every row of them.
C6_MissingFileSkipped ==
  Returned =>
    /\ result.error # "file_not_found"
    /\ result.status = "failed"
         => result.error \in {"schema", "delete", "insert"}
    /\ result.status = "success" =>
         /\ result.files_loaded = Cardinality(PresentFiles(cur))
         /\ \A f \in FilesOf(cur) :
              IF f \in PresentFiles(cur)
                THEN FileRows(cur, f) \sqsubseteq table_rows
                ELSE \A r \in DOMAIN table_rows :
                       ~(r.execution_id = cur /\ r.file = f)

\* mA1 loaded with success while a2 is absent from staging: a1 is loaded
C6_Witness ==
  /\ Returned
  /\ cur = "mA1"
  /\ result.status = "success"
  /\ PresentFiles(cur) = {"a1"}
  /\ result.files_loaded = 1
  /\ BagCardinality(CurPartition) = 2

\* ------------------------------------------------------------------------
\* Properties of the manifest lifecycle
\* ------------------------------------------------------------------------
\* the order of the states (the CASE of get_manifest_summary)
LifecycleRank(state) ==
  CASE state = Absent -> 0 [] state = "discovered" -> 1
    [] state = "downloading" -> 2 [] state = "staged" -> 3
    [] state = "loading" -> 4 [] state = "loaded" -> 5
    [] state = "failed" -> 6

\* the moves of discovered -> downloading -> staged -> loading ->
\* loaded | failed, with failed -> discovered
LifecycleChain ==
  {<<Absent, "discovered">>, <<"discovered", "downloading">>,
   <<"downloading", "staged">>, <<"downloading", "failed">>,
   <<"staged", "loading">>, <<"loading", "loaded">>,
   <<"loading", "failed">>, <<"failed", "discovered">>}

\* C7 as stated: a change of a manifest's state moves forward in the order
\* of the states, or is failed -> discovered.
C7_NeverBackwards ==
  [][\A m \in Manifests :
       state_db'[m] # state_db[m] =>
         \/ LifecycleRank(state_db'[m]) > LifecycleRank(state_db[m])
         \/ (state_db[m] = "failed" /\ state_db'[m] = "discovered")]_vars

\* C7 (manifest lifecycle), amended: every change of a manifest's state is a
\* move of the chain, or puts the manifest back to discovered (re-discovery,
\* from any state), or takes a loaded or failed manifest to loading (a
\* reload from staging).
C7_Lifecycle ==
  [][\A m \in Manifests :
       state_db'[m] # state_db[m] =>
         \/ <<state_db[m], state_db'[m]>> \in LifecycleChain
         \/ state_db'[m] = "discovered"
         \/ (state_db[m] \in {"loaded", "failed"}
             /\ state_db'[m] = "loading")]_vars

\* a manifest whose rows are in the table is loading again, while a manifest
\* whose files are all staged is back to discovered
C7_Witness ==
  /\ pc = "ensure_schema"
  /\ state_db[cur] = "loading"
  /\ \E r \in DOMAIN pre_partition : r.execution_id = cur
  /\ \E m \in Manifests \ {cur} :
       /\ state_db[m] = "discovered"
       /\ m \in staging_dirs
       /\ AllStaged(m)

\* ------------------------------------------------------------------------
\* Properties of discovery
\* ------------------------------------------------------------------------
Parsed == last_discovery.listed \ last_discovery.unparseable

MappedToItself(m) ==
  /\ BillingPeriod(m) \in DOMAIN last_discovery.loaded
  /\ last_discovery.loaded[BillingPeriod(m)] = m

\* C8 (discovery filtering): with a state checker, a parsed manifest is left
\* out of what discover_manifests returns exactly when the loaded-state map
\* maps its billing period to its own id; nothing else is returned.
C8_DiscoveryFiltering ==
  (/\ last_discovery.called
   /\ ~last_discovery.raised
   /\ last_discovery.checker # "none")
    => /\ last_discovery.returned \subseteq Parsed
       /\ \A m \in Parsed :
            m \notin last_discovery.returned <=> MappedToItself(m)

\* the table holds period 2 as loaded from mA1: mA1 is left out, mA2 of the
\* same period and mX of a period absent from the map are returned
C8_Witness ==
  /\ last_discovery.called
  /\ last_discovery.checker = "duckdb"
  /\ last_discovery.listed = Manifests
  /\ last_discovery.unparseable = {}
  /\ DOMAIN last_discovery.loaded = {2}
  /\ last_discovery.loaded[2] = "mA1"
  /\ last_discovery.returned = {"mA2", "mX"}
  /\ state_db["mA1"] = "loaded"
  /\ state_db["mA2"] = "discovered"

C10_SchemaMonotonicity ==
  /\ [][table_columns \subseteq table_columns']_vars
  /\ [](\A c, d \in table_columns : c.name = d.name => c.type = d.type)
  /\ []((Loading /\ Len(steps) >= 1) =>
          \A o \in DOMAIN ColumnMappingOf[cur] :
            ColumnMappingOf[cur][o] \in ColumnNames(table_columns))

\* the schema-ensure step of mA2 has added the tag column to a table that
\* holds rows
C10_Witness ==
  /\ pc = "delete"
  /\ cur = "mA2"
  /\ table_rows # EmptyBag
  /\ ColumnMappingOf["mA2"][OriginalName(ColTag)]
       \in ColumnNames(table_columns)
  /\ Cardinality(table_columns) = 4

\* ------------------------------------------------------------------------
\* Properties of the schema step
\* ------------------------------------------------------------------------
\* the manifests that have a row in the state database
KnownManifests == {m \in Manifests : state_db[m] # Absent}

\* the normalized names of the columns that manifest m declares
MappedNames(m) ==
  {ColumnMappingOf[m][o] : o \in DOMAIN ColumnMappingOf[m]}

\* the CREATE TABLE succeeded and the table has the columns of every known
\* manifest
HasKnownColumns(created) ==
  /\ created.ok
  /\ \A k \in KnownManifests :
       MappedNames(k) \subseteq ColumnNames(created.columns)

\* C11: when the table does not exist at the start of load(m), the CREATE
\* TABLE of the schema step is given the unified schema of every manifest
\* known to the state store, so that the created table has the columns of
\* every known manifest, the manifest being loaded among them.
C11_TableCreation ==
  (pc = "ensure_schema" /\ table_columns = {}) =>
    \A discovered \in get_manifests_by_state("discovered"),
       staged \in get_manifests_by_state("staged") :
      HasKnownColumns(create_table(get_unified_schema(
                        KnownColumns(discovered \o staged))))

\* ------------------------------------------------------------------------
\* The schema manager on its own: normalize_column_name,
\* create_column_mapping, get_new_columns and get_unified_schema applied to
\* arguments drawn from bounded sets, the call and its result recorded
\* ------------------------------------------------------------------------
\* longest column name given to normalize_column_name, besides the examples
MaxNameLen == 3

\* most columns in the column list of one manifest, and in that of a second
\* manifest next to it
MaxColumns == 3

MaxLaterColumns == 2

NameAlphabet == {"a", "s", "A", "1", "_", "/"}

\* the examples of the docstring of normalize_column_name
ExampleGroupName ==
  <<"a","w","s",":","a","u","t","o","s","c","a","l","i","n","g",":",
    "g","r","o","u","p","N","a","m","e">>

ExampleGroup == <<"g","r","o","u","p">>

ExampleDigit == <<"1","a","b","c">>

ColumnNameInputs ==
  UNION {[1..n -> NameAlphabet] : n \in 0..MaxNameLen}
  \cup {ExampleGroupName, ExampleGroup, ExampleDigit}

ColumnLists(n) == UNION {[1..k -> ColumnPool] : k \in 0..n}

\* names that the table may already have
ExistingPool == {<<"a","_","f">>, <<"a","_","f","_","1">>,
                 <<"a","_","f","_","2">>}

InitSchema ==
  /\ PipelineInit
  /\ ExportIdle
  /\ SyncIdle
  /\ MonthlyIdle
  /\ CliIdle
  /\ schema_output = NoSchemaOutput
  /\ \/ \E column_name \in ColumnNameInputs :
          schema_input = [column_name      |-> column_name,
                          column_lists     |-> <<>>,
                          existing_columns |-> {}]
     \/ \E manifest_columns \in ColumnLists(MaxColumns),
           existing_columns \in SUBSET ExistingPool :
          schema_input = [column_name      |-> <<>>,
                          column_lists     |-> <<manifest_columns>>,
                          existing_columns |-> existing_columns]
     \/ \E first \in ColumnLists(MaxColumns),
           second \in ColumnLists(MaxLaterColumns) :
          schema_input = [column_name      |-> <<>>,
                          column_lists     |-> <<first, second>>,
                          existing_columns |-> {}]

SchemaReturn(op, name, columns, mapping) ==
  /\ schema_output' =
       [op |-> op, name |-> name, columns |-> columns, mapping |-> mapping]
  /\ UNCHANGED <<cli_vars, pipeline_vars, schema_input, export_vars, sync_vars,
                 monthly>>

\* the dict of create_column_mapping as a set of items
Items(mapping) == {<<o, mapping[o]>> : o \in DOMAIN mapping}

NormalizeColumnName ==
  /\ schema_output.op = "none"
  /\ schema_input.column_lists = <<>>
  /\ SchemaReturn("normalize",
                  normalize_column_name(schema_input.column_name),
                  <<>>, {})

CreateColumnMapping ==
  /\ schema_output.op = "none"
  /\ Len(schema_input.column_lists) = 1
  /\ SchemaReturn("column_mapping", <<>>, <<>>,
                  Items(create_column_mapping(schema_input.column_lists[1])))

GetNewColumns ==
  /\ schema_output.op = "none"
  /\ Len(schema_input.column_lists) = 1
  /\ SchemaReturn("diff", <<>>,
                  get_new_columns(schema_input.existing_columns,
                                  schema_input.column_lists[1]),
                  {})

GetUnifiedSchema ==
  /\ schema_output.op = "none"
  /\ schema_input.column_lists # <<>>
  /\ schema_input.existing_columns = {}
  /\ SchemaReturn("unify", <<>>,
                  get_unified_schema(schema_input.column_lists), {})

NextSchema ==
  \/ NormalizeColumnName
  \/ CreateColumnMapping
  \/ GetNewColumns
  \/ GetUnifiedSchema

SpecSchema == InitSchema /\ [][NextSchema]_vars

\* ------------------------------------------------------------------------
\* Properties of the schema manager
\* ------------------------------------------------------------------------
\* no two columns of distinct original names have the same normalized name
UniqueNames(columns) ==
  \A i, j \in 1..Len(columns) :
    columns[i].original_name # columns[j].original_name
      => columns[i].normalized_name # columns[j].normalized_name

UniqueItems(mapping) ==
  \A p, q \in mapping : p[1] # q[1] => p[2] # q[2]

\* name is base, or base with a numeric suffix _1, _2, ...
BaseOrSuffixed(name, base, most) ==
  \/ name = base
  \/ \E k \in 1..most : name = base \o <<"_">> \o IntToStr(k)

SuffixedNames(columns, most) ==
  \A i \in 1..Len(columns) :
    BaseOrSuffixed(columns[i].normalized_name,
                   NormalizedName(columns[i].original_name), most)

\* C12: in the columns produced from one manifest (column_mapping, diff) and
\* in a unified schema, no two distinct original names receive the same
\* normalized name, and every name is its base or the base with a numeric
\* suffix.
C12_UniqueNormalizedNames ==
  /\ schema_output.op \in {"diff", "unify"} =>
       /\ UniqueNames(schema_output.columns)
       /\ SuffixedNames(schema_output.columns,
                        MaxColumns + MaxLaterColumns)
  /\ schema_output.op = "column_mapping" =>
       UniqueItems(schema_output.mapping)

\* a name that normalize_column_name may return
WellFormedName(name) ==
  /\ name # <<>>
  /\ \A i \in 1..Len(name) : name[i] \in Lower \cup Digit \cup {"_"}
  /\ \A i \in 1..(Len(name) - 1) : ~(name[i] = "_" /\ name[i + 1] = "_")
  /\ name[1] # "_"
  /\ name[Len(name)] # "_"
  /\ name[1] \notin Digit
  /\ ~is_reserved_word(name)

NormalizedExamples ==
  /\ normalize_column_name(ExampleGroupName)
       = <<"a","w","s","_","a","u","t","o","s","c","a","l","i","n","g","_",
           "g","r","o","u","p","_","n","a","m","e">>
  /\ normalize_column_name(ExampleGroup)
       = <<"g","r","o","u","p","_","c","o","l">>
  /\ normalize_column_name(ExampleDigit)
       = <<"c","o","l","_","1","a","b","c">>

\* C13: normalize_column_name returns for every string a name that is not
\* empty, is made of lowercase letters, digits and single underscores, has
\* no leading or trailing underscore, does not start with a digit and is no
\* reserved word; the same string always gives the same name; the three
\* examples give aws_autoscaling_group_name, group_col and col_1abc.
C13_NormalizeTotal ==
  schema_output.op = "normalize" =>
    /\ WellFormedName(schema_output.name)
    /\ schema_output.name = normalize_column_name(schema_input.column_name)
    /\ NormalizedExamples

C13_Witness ==
  /\ schema_output.op = "normalize"
  /\ schema_input.column_name = ExampleGroup
  /\ schema_output.name = <<"g","r","o","u","p","_","c","o","l">>

\* the position of the first column of original name o
FirstOccurrence(cols, o) ==
  CHOOSE i \in 1..Len(cols) :
    /\ OriginalName(cols[i]) = o
    /\ \A j \in 1..(i - 1) : OriginalName(cols[j]) # o

\* the name that column i gets in encounter order: its base, suffixed with
\* the number of earlier columns of the same base
NameInOrder(cols, i, earlier) ==
  IF earlier = 0 THEN normalized_original_name(cols[i])
  ELSE normalized_original_name(cols[i]) \o <<"_">> \o IntToStr(earlier)

EncounterName(cols, i) ==
  NameInOrder(cols, i,
              Cardinality({j \in 1..(i - 1) :
                             normalized_original_name(cols[j])
                               = normalized_original_name(cols[i])}))

\* out is the definition of column first of cols
DefinedBy(out, cols, first) ==
  /\ out.normalized_name = EncounterName(cols, first)
  /\ out.category = cols[first].category
  /\ out.aws_type = cols[first].type
  /\ out.duckdb_type = get_duckdb_type(cols[first].category,
                                       cols[first].type)

UnifiedFrom(out, cols) ==
  /\ {out[i].original_name : i \in 1..Len(out)}
       = {OriginalName(cols[j]) : j \in 1..Len(cols)}
  /\ \A i, j \in 1..Len(out) :
       i # j => out[i].original_name # out[j].original_name
  /\ \A i \in 1..Len(out) :
       DefinedBy(out[i], cols, FirstOccurrence(cols, out[i].original_name))
  /\ \A i, j \in 1..Len(out) : i < j => ~KeyLess(out[j], out[i])

\* C14: get_unified_schema returns exactly one column for each distinct
\* original name of the manifests, with the name and the type of its first
\* occurrence, ordered by category and then by normalized name.
C14_UnifyFirstWins ==
  schema_output.op = "unify" =>
    UnifiedFrom(schema_output.columns, Flatten(schema_input.column_lists))

C14_Witness ==
  /\ schema_output.op = "unify"
  /\ schema_input.column_lists
       = <<<<PoolSuffixed, PoolUpper>>, <<PoolRetyped, PoolLower>>>>
  /\ Len(schema_output.columns) = 3
  /\ schema_output.columns[1].original_name = OriginalName(PoolUpper)
  /\ schema_output.columns[1].aws_type = "String"
  /\ schema_output.columns[3].original_name = OriginalName(PoolSuffixed)

NotIn(existing_columns, columns) ==
  SelectSeq(columns, LAMBDA c : c.normalized_name \notin existing_columns)

DiffOf(out, existing_columns, all) ==
  /\ out = NotIn(existing_columns, all)
  /\ \A i \in 1..Len(out) : out[i].normalized_name \notin existing_columns
  /\ (\A i \in 1..Len(all) : all[i].normalized_name \in existing_columns)
       => out = <<>>

\* C15: get_new_columns returns exactly the columns of the manifest whose
\* normalized name, resolved for collisions within the manifest's own list,
\* is not among the existing columns: never a column that is present, and
\* nothing when all are present.
C15_DiffOnlyMissing ==
  schema_output.op = "diff" =>
    DiffOf(schema_output.columns, schema_input.existing_columns,
           process_manifest_columns(schema_input.column_lists[1], FALSE, {}))

C15_Witness ==
  /\ schema_output.op = "diff"
  /\ schema_input.column_lists = <<<<PoolUpper, PoolLower>>>>
  /\ schema_input.existing_columns = {<<"a","_","f">>}
  /\ Len(schema_output.columns) = 1
  /\ schema_output.columns[1].original_name = OriginalName(PoolLower)
  /\ schema_output.columns[1].normalized_name = <<"a","_","f","_","1">>

\* ------------------------------------------------------------------------
\* Properties of the tagged insert
\* ------------------------------------------------------------------------
\* the loop of load_manifest is about to call load_csv_file for a data file
\* that is in staging
AboutToInsert ==
  /\ pc = "insert"
  /\ file_idx <= Len(Catalog[cur].csv_files)
  /\ path_exists(cur, Catalog[cur].csv_files[file_idx])

\* C16: the table that the schema step ensured accepts the INSERT of a
\* staged data file, which names the execution-id column next to the
\* translated header, and a load whose data files are all staged does not
\* come back failed on that INSERT.
C16_TaggedInsertAccepted ==
  /\ AboutToInsert => InsertAccepted(table_columns, cur)
  /\ (Returned /\ AllStaged(cur) /\ result.status = "failed")
       => \/ result.error # "insert"
          \/ InsertAccepted(table_columns, cur)

\* ------------------------------------------------------------------------
\* ParquetExporter: export of a billing period, or of one execution of it,
\* from the DuckDB table to the parquet directory
\* ------------------------------------------------------------------------
\* the columns that the COPY statements order by
ExportSortColumns ==
  {<<"l","i","n","e","_","i","t","e","m","_","u","s","a","g","e","_",
     "s","t","a","r","t","_","d","a","t","e">>,
   <<"l","i","n","e","_","i","t","e","m","_","u","s","a","g","e","_",
     "a","c","c","o","u","n","t","_","i","d">>,
   <<"l","i","n","e","_","i","t","e","m","_","p","r","o","d","u","c","t","_",
     "c","o","d","e">>}

\* a table loaded from manifests that declare the usage columns
BillingTable ==
  {[name |-> BillingPeriodStartColumn, type |-> "TIMESTAMP"],
   [name |-> ExecutionIdColumn, type |-> "VARCHAR"]}
  \cup {[name |-> c, type |-> "VARCHAR"] : c \in ExportSortColumns}

\* the rows that the COPY of an execution selects
ExecutionRows(rows, m) ==
  [r \in {x \in DOMAIN rows :
            x.period = BillingPeriod(m) /\ x.execution_id = m} |-> rows[r]]

\* _has_data_for_period: the COUNT is positive; False when the query fails
has_data_for_period(columns, rows, billing_period) ==
  /\ DeleteAccepted(columns)
  /\ Partition(rows, billing_period) # EmptyBag

\* _has_data_for_execution
has_data_for_execution(columns, rows, m) ==
  /\ DeleteAccepted(columns)
  /\ ExecutionIdColumn \in ColumnNames(columns)
  /\ ExecutionRows(rows, m) # EmptyBag

\* the COPY binds: the table has the columns of its ORDER BY
CopyBinds(columns) == ExportSortColumns \subseteq ColumnNames(columns)

\* an export that never looks whether the file is there
export_single_Overwrite(existed, overwrite, has_data, binds) ==
  IF ~has_data \/ ~binds THEN "failed" ELSE "exported"

\* _export_single_period and _export_single_execution with the except
\* clause of their callers: the returned status
export_single(existed, overwrite, has_data, binds) ==
  IF existed /\ ~overwrite THEN "skipped"
  ELSE IF ~has_data THEN "failed"
  ELSE IF ~binds THEN "failed"
  ELSE "exported"

\* one export: the file written and the status returned
ExportReturn(name, overwrite, source, status) ==
  /\ parquet_files' =
       IF status = "exported"
         THEN [parquet_files EXCEPT ![name] =
                 [exists |-> TRUE, rows |-> source]]
         ELSE parquet_files
  /\ last_export' =
       [called |-> TRUE, name |-> name, overwrite |-> overwrite,
        before |-> parquet_files[name], source |-> source,
        status |-> status]
  /\ UNCHANGED <<cli_vars, pipeline_vars, schema_vars, sync_vars, monthly>>

ExportSinglePeriod ==
  \E billing_period \in Periods, overwrite \in BOOLEAN :
    ExportReturn(
      PeriodFile(billing_period), overwrite,
      Partition(table_rows, billing_period),
      export_single(parquet_files[PeriodFile(billing_period)].exists,
                    overwrite,
                    has_data_for_period(table_columns, table_rows,
                                        billing_period),
                    CopyBinds(table_columns)))

ExportSingleExecution ==
  \E m \in Manifests, overwrite \in BOOLEAN :
    ExportReturn(
      ExecutionFile(m), overwrite, ExecutionRows(table_rows, m),
      export_single(parquet_files[ExecutionFile(m)].exists, overwrite,
                    has_data_for_execution(table_columns, table_rows, m),
                    CopyBinds(table_columns)))

\* the tables that an export may find: none, the table of LoadedSnapshot,
\* or a table with the usage columns; each billing period empty or holding
\* the rows of one execution
ExportTables ==
  {[columns |-> {}, rows |-> EmptyBag]}
  \cup {[columns |-> c, rows |-> p1 (+) p2] :
          c \in {LoadedSnapshot.table_columns, BillingTable},
          p1 \in {EmptyBag, FileRows("mX", "x1")},
          p2 \in {EmptyBag, FileRows("mA1", "a1") (+) FileRows("mA1", "a2"),
                  FileRows("mA2", "c1")}}

\* what an earlier export left in a file
EarlierExport ==
  [exists |-> TRUE, rows |-> FileRows("mA1", "a1")]

InitExport ==
  /\ bucket = InitialBucket
  /\ state_db = [m \in Manifests |-> Absent]
  /\ staging_dirs = {}
  /\ staging_files = {}
  /\ \E table \in ExportTables :
       /\ table_columns = table.columns
       /\ table_rows = table.rows
  /\ CommandsIdle
  /\ SchemaIdle
  /\ SyncIdle
  /\ MonthlyIdle
  /\ CliIdle
  /\ parquet_files \in [FileNames -> {NoFile, EarlierExport}]
  /\ last_export = NoExport

NextExport ==
  \/ ExportSinglePeriod
  \/ ExportSingleExecution

SpecExport == InitExport /\ [][NextExport]_vars

\* ------------------------------------------------------------------------
\* Properties of export
\* ------------------------------------------------------------------------
Exported(status) ==
  /\ status = "exported"
  /\ parquet_files[last_export.name] =
       [exists |-> TRUE, rows |-> last_export.source]

NotWritten(status) ==
  /\ last_export.status = status
  /\ parquet_files[last_export.name] = last_export.before

SkipsExisting ==
  (last_export.before.exists /\ ~last_export.overwrite)
    => NotWritten("skipped")

FailsOnNoRows ==
  (/\ ~(last_export.before.exists /\ ~last_export.overwrite)
   /\ last_export.source = EmptyBag)
    => NotWritten("failed")

MaxSyncs == 2

\* a row of an exported file as the BigQuery statements see it: at_start
\* says whether its bill_billing_period_start_date is the first instant of
\* the month, or a later instant of the same month
SyncRow(m, at_start) ==
  [execution_id |-> m, period |-> BillingPeriod(m), at_start |-> at_start,
   line |-> 1]

ExportedFile(m, at_start) ==
  [exists |-> TRUE, rows |-> SetToBag({SyncRow(m, at_start)})]

\* what the parquet directory may hold under a name
FileChoices(name) ==
  {NoFile}
  \cup {ExportedFile(m, at_start) :
          m \in {k \in Manifests :
                   /\ BillingPeriod(k) = name[1]
                   /\ name[2] \in {k, NoManifest}},
          at_start \in BOOLEAN}

AllFileChoices == UNION {FileChoices(n) : n \in FileNames}

\* the execution ids of the rows that FORMAT_TIMESTAMP('%Y-%m', ...) puts
\* in a billing period
HeldIds(rows, billing_period) ==
  {x.execution_id : x \in {r \in DOMAIN rows : r.period = billing_period}}

\* _get_loaded_execution_ids: per billing period the execution id of the
\* first row of the query, which orders by billing period only
remote_loaded_execution_ids(rows) ==
  {f \in [{p \in Periods : HeldIds(rows, p) # {}} -> Manifests] :
     \A p \in DOMAIN f : f[p] \in HeldIds(rows, p)}

\* DELETE FROM table WHERE bill_billing_period_start_date =
\* TIMESTAMP(first instant of the billing period)
remote_delete(rows, billing_period) ==
  [r \in {x \in DOMAIN rows :
            ~(x.period = billing_period /\ x.at_start)} |-> rows[r]]

\* _load_execution_to_bigquery / _load_parquet_to_bigquery: the DELETE, then
\* the load job with WRITE_APPEND; job_fails: the job reports errors
load_to_bigquery(rows, file, billing_period, job_fails) ==
  IF job_fails
    THEN [ok |-> FALSE, rows |-> remote_delete(rows, billing_period)]
    ELSE [ok |-> TRUE,
          rows |-> remote_delete(rows, billing_period) (+) file.rows]

\* _ensure_table_exists: creating the table needs a parquet file to infer
\* the schema from
table_ensured(table, files) ==
  table \/ \E n \in DOMAIN files : files[n].exists

SyncReturn(name, overwrite, execution_ids, status, table_after, rows_after) ==
  /\ remote_table' = table_after
  /\ remote_rows' = rows_after
  /\ last_sync' =
       [called |-> TRUE, name |-> name, overwrite |-> overwrite,
        execution_ids |-> execution_ids,
        held |-> HeldIds(remote_rows, name[1]), before |-> remote_rows,
        status |-> status, count |-> last_sync.count + 1]
  /\ UNCHANGED <<cli_vars, pipeline_vars, schema_vars, export_vars, monthly>>

LoadStatus(done) == IF done.ok THEN "loaded" ELSE "failed"

\* _load_single_execution with the except clause of its caller
LoadSingleExecution(m, overwrite) ==
  IF ~parquet_files[ExecutionFile(m)].exists
    THEN SyncReturn(ExecutionFile(m), overwrite, {m}, "failed", TRUE,
                    remote_rows)
    ELSE \E job_fails \in BOOLEAN :
           \E done \in {load_to_bigquery(
                          remote_rows, parquet_files[ExecutionFile(m)],
                          BillingPeriod(m), job_fails)} :
             SyncReturn(ExecutionFile(m), overwrite, {m}, LoadStatus(done),
                        TRUE, done.rows)

\* load_billing_data_by_execution for one manifest
LoadByExecution ==
  /\ last_sync.count < MaxSyncs
  /\ \E m \in Manifests, overwrite \in BOOLEAN :
       IF ~table_ensured(remote_table, parquet_files)
         THEN SyncReturn(ExecutionFile(m), overwrite, {m}, "raised", FALSE,
                         remote_rows)
         ELSE \E loaded \in remote_loaded_execution_ids(remote_rows) :
                IF /\ ~overwrite
                   /\ BillingPeriod(m) \in DOMAIN loaded
                   /\ loaded[BillingPeriod(m)] = m
                  THEN SyncReturn(ExecutionFile(m), overwrite, {m},
                                  "skipped", TRUE, remote_rows)
                  ELSE LoadSingleExecution(m, overwrite)

\* the execution ids of the rows of a file
FileIds(file) == {x.execution_id : x \in DOMAIN file.rows}

\* load_billing_periods for one billing period: _load_single_period with
\* the except clause of its caller
LoadByPeriod ==
  /\ last_sync.count < MaxSyncs
  /\ \E billing_period \in Periods, overwrite \in BOOLEAN :
       IF ~parquet_files[PeriodFile(billing_period)].exists
         THEN SyncReturn(PeriodFile(billing_period), overwrite, {},
                         "failed", remote_table, remote_rows)
         ELSE \E job_fails \in BOOLEAN :
                \E done \in {load_to_bigquery(
                               remote_rows,
                               parquet_files[PeriodFile(billing_period)],
                               billing_period, job_fails)} :
                  SyncReturn(PeriodFile(billing_period), overwrite,
                             FileIds(parquet_files[PeriodFile(billing_period)]),
                             LoadStatus(done), TRUE, done.rows)

InitSync ==
  /\ PipelineInit
  /\ SchemaIdle
  /\ SyncIdle
  /\ MonthlyIdle
  /\ CliIdle
  /\ parquet_files \in {f \in [FileNames -> AllFileChoices] :
                          \A n \in FileNames : f[n] \in FileChoices(n)}
  /\ last_export = NoExport

NextSync ==
  \/ LoadByExecution
  \/ LoadByPeriod

SpecSync == InitSync /\ [][NextSync]_vars

\* ------------------------------------------------------------------------
\* Properties of sync
\* ------------------------------------------------------------------------
\* the remote table held exactly the execution id being synced for the
\* billing period, and overwrite was not requested
AlreadySynced ==
  /\ ~last_sync.overwrite
  /\ last_sync.held # {}
  /\ last_sync.held = last_sync.execution_ids

\* C18: a sync returns skipped, and leaves the remote table as it was,
\* whenever the remote table already held exactly the execution id being
\* synced for the billing period and overwrite was not requested; in every
\* other case it is not skipped.
C18_SyncSkip ==
  last_sync.called =>
    IF AlreadySynced
      THEN last_sync.status = "skipped" /\ remote_rows = last_sync.before
      ELSE last_sync.status # "skipped"

\* C19: after a sync has loaded a file for a billing period, the remote
\* table holds for that period exactly the rows of the file: no row twice,
\* no row of an earlier execution.
C19_SyncReplace ==
  (last_sync.called /\ last_sync.status = "loaded")
    => Partition(remote_rows, last_sync.name[1])
         = parquet_files[last_sync.name].rows

\* ------------------------------------------------------------------------
\* MonthlyPipelineOrchestrator: load, export and truncate month by month
\* ------------------------------------------------------------------------
\* _group_manifests_by_month: the manifests of one month, in list order
MonthManifests(manifests, billing_month) ==
  SelectSeq(manifests, LAMBDA m : BillingPeriod(m) = billing_month)

\* sorted(monthly_groups.keys())
RECURSIVE SortedMonths(_)
SortedMonths(months) ==
  IF months = {} THEN <<>>
  ELSE LET first == CHOOSE p \in months : \A q \in months : p <= q
       IN  <<first>> \o SortedMonths(months \ {first})

\* the lists of manifests that process_monthly may be given
ManifestLists == UNION {Permutations_(S) : S \in SUBSET Manifests}

\* what a load does to one execution: it succeeds, or a statement of the
\* schema step or of the insert step fails
LoadFaults == {"none", "schema", "insert"}

\* the rows of the data files of m that are in the staging directory; a
\* missing file is passed over
RECURSIVE FoundRows(_, _)
FoundRows(m, i) ==
  IF i > Len(Catalog[m].csv_files) THEN EmptyBag
  ELSE (IF path_exists(m, Catalog[m].csv_files[i])
          THEN FileRows(m, Catalog[m].csv_files[i])
          ELSE EmptyBag) (+) FoundRows(m, i + 1)

\* the table after the schema step of a load: it has execution_id and the
\* columns of the manifest
LoadedColumns(columns, m) ==
  add_new_columns(
    IF ExecutionIdColumn \in ColumnNames(columns)
      THEN columns
      ELSE columns \cup {[name |-> ExecutionIdColumn, type |-> "VARCHAR"]},
    Catalog[m].columns_schema, 0).columns

\* the load of one execution: schema, delete of the partition, insert of
\* the files found; a failure is counted and nothing is rolled back
load_execution(table, m, fault) ==
  IF fault = "schema"
    THEN [table EXCEPT !.failed_executions = @ + 1]
  ELSE IF fault = "insert"
    THEN [columns |-> LoadedColumns(table.columns, m),
          rows |-> delete_partition(table.rows, BillingPeriod(m)),
          failed_executions |-> table.failed_executions + 1]
  ELSE [columns |-> LoadedColumns(table.columns, m),
        rows |-> delete_partition(table.rows, BillingPeriod(m))
                   (+) FoundRows(m, 1),
        failed_executions |-> table.failed_executions]

\* load_billing_data_from_manifests: the executions one after the other, a
\* failed one does not stop the next
RECURSIVE load_billing_data_from_manifests(_, _, _, _)
load_billing_data_from_manifests(table, manifests, i, faults) ==
  IF i > Len(manifests) THEN table
  ELSE load_billing_data_from_manifests(
         load_execution(table, manifests[i], faults[manifests[i]]),
         manifests, i + 1, faults)

\* truncate_table: DELETE FROM table
truncate_table(rows) == EmptyBag

\* one pass of the loop of export_billing_data_by_execution: an exported
\* file is written, a failed status is counted
ExportedExecution(exported, m, rows, status) ==
  [files |-> IF status = "exported"
               THEN [exported.files EXCEPT ![ExecutionFile(m)] =
                       [exists |-> TRUE, rows |-> ExecutionRows(rows, m)]]
               ELSE exported.files,
   failed_exports |-> exported.failed_exports
                        + (IF status = "failed" THEN 1 ELSE 0)]

\* export_billing_data_by_execution: the files and the number of failed
\* statuses after the manifests from position i on
RECURSIVE export_billing_data_by_execution(_, _, _, _, _, _)
export_billing_data_by_execution(exported, columns, rows, manifests, i, overwrite) ==
  IF i > Len(manifests) THEN exported
  ELSE export_billing_data_by_execution(
         ExportedExecution(
           exported, manifests[i], rows,
           export_single(
             exported.files[ExecutionFile(manifests[i])].exists, overwrite,
             has_data_for_execution(columns, rows, manifests[i]),
             CopyBinds(columns))),
         columns, rows, manifests, i + 1, overwrite)

\* the except clause of process_monthly, or the return of
\* _process_single_month: the result is appended and the loop goes on
MonthReturned(status) ==
  monthly' =
    [monthly EXCEPT
       !.results = Append(@, [billing_month |-> Head(monthly.months),
                              status |-> status]),
       !.months = Tail(@),
       !.pc = IF Tail(monthly.months) = <<>> THEN "done" ELSE "load"]

\* process_monthly up to its loop
ProcessMonthly ==
  /\ monthly.pc = "idle"
  /\ \E manifests \in ManifestLists, overwrite_parquet \in BOOLEAN :
       monthly' =
         [pc |-> IF manifests = <<>> THEN "done" ELSE "load",
          manifests |-> manifests,
          months |-> SortedMonths({BillingPeriod(manifests[i]) :
                                     i \in 1..Len(manifests)}),
          overwrite |-> overwrite_parquet,
          results |-> <<>>]
  /\ UNCHANGED <<cli_vars, pipeline_vars, schema_vars, export_vars, sync_vars>>

\* step 1 of _process_single_month
MonthLoad ==
  /\ monthly.pc = "load"
  /\ \E faults \in [Manifests -> LoadFaults] :
       \E loaded \in {load_billing_data_from_manifests(
                        [columns |-> table_columns, rows |-> table_rows,
                         failed_executions |-> 0],
                        MonthManifests(monthly.manifests,
                                       Head(monthly.months)),
                        1, faults)} :
         /\ table_columns' = loaded.columns
         /\ table_rows' = loaded.rows
         /\ IF loaded.failed_executions > 0
              THEN MonthReturned("failed")
              ELSE monthly' = [monthly EXCEPT !.pc = "export"]
  /\ UNCHANGED <<cli_vars, bucket, state_db, staging_dirs, staging_files, pc, queue,
                 cur, file_idx, total_files, total_rows, loaded_files,
                 inserted, result, load_stats, steps, pre_partition, last_load,
                 last_discovery, extract_stats, schema_vars, export_vars, sync_vars>>

\* step 2 of _process_single_month
MonthExport ==
  /\ monthly.pc = "export"
  /\ \E exported \in {export_billing_data_by_execution(
                        [files |-> parquet_files, failed_exports |-> 0],
                        table_columns, table_rows,
                        MonthManifests(monthly.manifests,
                                       Head(monthly.months)),
                        1, monthly.overwrite)} :
       /\ parquet_files' = exported.files
       /\ IF exported.failed_exports > 0
            THEN MonthReturned("failed")
            ELSE monthly' = [monthly EXCEPT !.pc = "truncate"]
  /\ UNCHANGED <<cli_vars, pipeline_vars, schema_vars, last_export, sync_vars>>

\* step 3 of _process_single_month and its return
MonthTruncate ==
  /\ monthly.pc = "truncate"
  /\ table_rows' = truncate_table(table_rows)
  /\ MonthReturned("success")
  /\ UNCHANGED <<cli_vars, bucket, state_db, staging_dirs, staging_files,
                 table_columns, pc, queue, cur, file_idx, total_files,
                 total_rows, loaded_files, inserted, result, load_stats, steps,
                 pre_partition, last_load, last_discovery, extract_stats, schema_vars,
                 export_vars, sync_vars>>

\* every data file of every manifest is in the staging directory
AllStagedFiles == {<<m, f>> \in Manifests \X {"x1", "a1", "a2", "c1"} :
                     f \in FilesOf(m)}

\* the manifests are extracted, with or without one data file of mA1; the
\* DuckDB table is absent or empty
InitMonthly ==
  /\ bucket = InitialBucket
  /\ state_db = [m \in Manifests |-> "staged"]
  /\ staging_dirs = Manifests
  /\ staging_files \in {AllStagedFiles, AllStagedFiles \ {<<"mA1", "a2">>}}
  /\ table_columns \in {{}, BillingTable}
  /\ table_rows = EmptyBag
  /\ CommandsIdle
  /\ SchemaIdle
  /\ SyncIdle
  /\ MonthlyIdle
  /\ CliIdle
  /\ parquet_files \in [FileNames -> {NoFile, EarlierExport}]
  /\ last_export = NoExport

NextMonthly ==
  \/ ProcessMonthly
  \/ MonthLoad
  \/ MonthExport
  \/ MonthTruncate

SpecMonthly == InitMonthly /\ [][NextMonthly]_vars

\* ------------------------------------------------------------------------
\* Properties of the month-by-month mode
\* ------------------------------------------------------------------------
PeriodsInTable == {r.period : r \in DOMAIN table_rows}

\* C20: in the month-by-month mode the table never holds rows of more than
\* one billing period, and it is empty whenever the load of a month begins,
\* also after a month whose load or export failed
C20_OneMonthInTable ==
  /\ Cardinality(PeriodsInTable) <= 1
  /\ monthly.pc = "load" => table_rows = EmptyBag

\* ------------------------------------------------------------------------
\* Properties of a batch load
\* ------------------------------------------------------------------------
\* the manifests that have a result in the running or the last batch
ResultIds ==
  [i \in 1..Len(load_stats.results) |-> load_stats.results[i].manifest_id]

StatusCount(status) ==
  Cardinality({i \in 1..Len(load_stats.results) :
                 load_stats.results[i].status = status})

\* the loop of load_billing_data is over: the counters are about to be
\* returned
BatchLoaded == pc = "load" /\ queue = <<>>

\* C21 (load error isolation): whatever the results so far, a batch load
\* goes on with the manifests after a failed one: the manifests with a
\* result, the manifest being loaded and the manifests still to load are
\* the batch, in order; when load_billing_data returns, every manifest of
\* the batch has exactly one result and loaded_manifests + failed_manifests
\* is total_manifests.
C21_LoadIsolation ==
  /\ load_stats.total_manifests = Len(load_stats.all_manifests)
  /\ load_stats.loaded_manifests = StatusCount("success")
  /\ load_stats.failed_manifests = StatusCount("failed")
  /\ (pc = "load") => ResultIds \o queue = load_stats.all_manifests
  /\ (pc \in {"ensure_schema", "delete", "insert"})
       => ResultIds \o <<cur>> \o queue = load_stats.all_manifests
  /\ BatchLoaded =>
       /\ ResultIds = load_stats.all_manifests
       /\ load_stats.loaded_manifests + load_stats.failed_manifests
            = load_stats.total_manifests

\* a batch has returned in which a manifest failed and the manifest after
\* it was loaded
C21_Witness ==
  /\ BatchLoaded
  /\ \E i \in 1..Len(load_stats.results) - 1 :
       /\ load_stats.results[i].status = "failed"
       /\ load_stats.results[i + 1].status = "success"

\* C27 (row count of load): the rows_loaded that load_manifest returns with
\* success is the number of rows inserted from the data files of the
\* manifest.
C27_RowsLoaded ==
  (Returned /\ result.status = "success") => result.rows_loaded = inserted

\* C29 (terminal state of load): when load_manifest has returned, the state
\* of the manifest is 'loaded' if the returned status is success and
\* 'failed' otherwise, and a manifest is in state 'loading' only while its
\* load is running.
C29_TerminalState ==
  /\ Returned =>
       state_db[cur] = IF result.status = "success" THEN "loaded"
                                                    ELSE "failed"
  /\ \A m \in Manifests :
       state_db[m] = "loading" => (Loading /\ ~Returned /\ m = cur)

\* load_manifest has returned a failure after a statement failed
C29_Witness ==
  /\ Returned
  /\ result.status = "failed"
  /\ state_db[cur] = "failed"
  /\ load_stats.loaded_manifests > 0

\* ------------------------------------------------------------------------
\* Properties of extraction
\* ------------------------------------------------------------------------
\* the data files of m that are not in its staging directory
MissingFiles(m) == {f \in FilesOf(m) : <<m, f>> \notin staging_files}

\* C23 (download errors): in the step that downloads the files of a
\* manifest, every download that fails is counted in errors and the other
\* files are still downloaded; the manifest becomes 'staged' only if no
\* declared file is missing and 'failed' if one is; the manifests after it
\* stay in the queue and the loop goes on.
C23_DownloadErrors ==
  [][pc = "download" =>
       LET failed == extract_stats'.failed_downloads
                       - extract_stats.failed_downloads
           got    == extract_stats'.files_downloaded
                       - extract_stats.files_downloaded
           missing == {f \in FilesOf(cur) : <<cur, f>> \notin staging_files'}
       IN  /\ extract_stats'.errors >= extract_stats.errors + failed
           /\ failed > 0 => got = Cardinality(FilesOf(cur)) - failed
           /\ got = Cardinality(FilesOf(cur) \ missing)
           /\ state_db'[cur] = "staged" => missing = {}
           /\ missing # {} => state_db'[cur] = "failed"
           /\ queue' = queue
           /\ pc' = "extract"]_vars

\* an extraction of two manifests is at its end: one download of the first
\* failed, which made two errors, and the second manifest is staged
C23_Witness ==
  /\ pc = "extract"
  /\ queue = <<>>
  /\ extract_stats = [manifests_processed |-> 2, files_downloaded |-> 2,
                      errors |-> 2, failed_downloads |-> 1]
  /\ state_db["mA1"] = "failed"
  /\ state_db["mX"] = "staged"
  /\ MissingFiles("mA1") = {"a2"}

\* C28 (staged means present): every data file of a manifest whose state is
\* 'staged' is in the staging directory of the manifest.
C28_StagedMeansPresent ==
  \A m \in Manifests : state_db[m] = "staged" => MissingFiles(m) = {}

\* C22 (error isolation of sync): a batch call of the BigQueryLoader records
\* an error on a billing period or execution as 'failed' for that item; no
\* exception leaves the call, so every item gets one of the statuses
\* loaded, skipped and failed.
C22_SyncErrorIsolation ==
  last_sync.called => last_sync.status \in {"loaded", "skipped", "failed"}

\* ------------------------------------------------------------------------
\* CURManifest.from_manifest_data
\* ------------------------------------------------------------------------
\* the years and months of the billing periods of the manifest documents
Years == {2024, 2025}

Months == 1..12

\* the two forms of billingPeriod.start, and a document without one
StartForms == {"compact", "dashed"}

\* a number below one hundred as two digits
TwoDigits(n) == IF n < 10 THEN <<"0">> \o IntToStr(n) ELSE IntToStr(n)

YearStr(year) == TwoDigits(year \div 100) \o TwoDigits(year % 100)

\* billingPeriod.start as the documents write it: 20250901T000000.000Z and
\* 2024-01-01; the empty string when the document has none
PeriodStart(year, month, form) ==
  CASE form = "compact" ->
         YearStr(year) \o TwoDigits(month)
           \o <<"0","1","T","0","0","0","0","0","0",".","0","0","0","Z">>
    [] form = "dashed" ->
         YearStr(year) \o <<"-">> \o TwoDigits(month) \o <<"-","0","1">>
    [] OTHER -> <<>>

\* str.startswith
startswith(s, prefix) ==
  Len(s) >= Len(prefix) /\ SubSeq(s, 1, Len(prefix)) = prefix

\* the slice s[a:b] of a string
Slice(s, a, b) == SubSeq(s, a + 1, IF b < Len(s) THEN b ELSE Len(s))

Unknown == <<"u","n","k","n","o","w","n">>

\* from_manifest_data: the billing_period of the CURManifest; both versions
\* read billingPeriod.start
from_manifest_data(version, billing_period_start) ==
  IF billing_period_start # <<>>
    THEN IF startswith(billing_period_start, <<"2","0">>)
           THEN Slice(billing_period_start, 0, 4) \o <<"-">>
                  \o Slice(billing_period_start, 4, 6)
           ELSE Slice(billing_period_start, 0, 7)
    ELSE Unknown

\* the manifest documents: every version, year, month and form
ManifestDocuments ==
  {[pc |-> "document", version |-> v, year |-> y, month |-> m, form |-> f,
    billing_period_start |-> PeriodStart(y, m, f), billing_period |-> <<>>] :
      v \in {"v1", "v2"}, y \in Years, m \in Months, f \in StartForms}
  \cup {[NoParsed EXCEPT !.pc = "document", !.version = v] : v \in {"v1", "v2"}}

InitManifest ==
  /\ PipelineInit
  /\ SchemaIdle
  /\ ExportIdle
  /\ SyncIdle
  /\ MonthlyIdle
  /\ parsed \in ManifestDocuments
  /\ command = NoCommand
  /\ dry_run = NoDryRun

\* a call of CURManifest.from_manifest_data on the document
FromManifestData ==
  /\ parsed.pc = "document"
  /\ parsed' = [parsed EXCEPT
       !.pc = "parsed",
       !.billing_period =
         from_manifest_data(parsed.version, parsed.billing_period_start)]
  /\ UNCHANGED <<pipeline_vars, schema_vars, export_vars, sync_vars, monthly,
                 command, dry_run>>

NextManifest == FromManifestData

SpecManifest == InitManifest /\ [][NextManifest]_vars

\* C26 (billing period key): the billing_period of a manifest parsed with a
\* period start date is the four-digit year, a hyphen and the two-digit
\* month of that date, in the compact form and in the dashed form alike.
C26_BillingPeriodKey ==
  (parsed.pc = "parsed" /\ parsed.form \in StartForms)
    => parsed.billing_period
         = YearStr(parsed.year) \o <<"-">> \o TwoDigits(parsed.month)

\* ------------------------------------------------------------------------
\* The names of the exported files, as text
\* ------------------------------------------------------------------------
Vendor == <<"a","w","s">>

BillingParquet == <<"_","b","i","l","l","i","n","g",".","p","a","r","q","u","e","t">>

\* the billing period and the execution id as the f-strings format them
BillingPeriodText(billing_period) ==
  YearStr(2024) \o <<"-">> \o TwoDigits(billing_period)

ExecutionIdText(m) ==
  CASE m = "mX" -> <<"m","X">>
    [] m = "mA1" -> <<"m","A","1">>
    [] m = "mA2" -> <<"m","A","2">>

\* filename of ParquetExporter._export_single_execution
export_execution_filename(billing_period, execution_id, vendor) ==
  billing_period \o <<"_">> \o execution_id \o <<"_">> \o vendor
    \o BillingParquet

\* filename of ParquetExporter._export_single_period
export_period_filename(billing_period, vendor) ==
  billing_period \o <<"_">> \o vendor \o BillingParquet

\* parquet_file of BigQueryLoader._load_single_execution
load_execution_filename(billing_period, execution_id, vendor) ==
  billing_period \o <<"_">> \o execution_id \o <<"_">> \o vendor
    \o BillingParquet

\* parquet_file of BigQueryLoader._load_single_period
load_period_filename(billing_period, vendor) ==
  billing_period \o <<"_">> \o vendor \o BillingParquet

\* the text of the name the exporter gives the file <<period, id>>
WrittenName(name) ==
  IF name[2] = NoManifest
    THEN export_period_filename(BillingPeriodText(name[1]), Vendor)
    ELSE export_execution_filename(BillingPeriodText(name[1]),
                                   ExecutionIdText(name[2]), Vendor)

\* the names of the files in the parquet directory
DirectoryOf(files) == {WrittenName(n) : n \in {k \in FileNames : files[k].exists}}

endswith(s, suffix) ==
  /\ Len(s) >= Len(suffix)
  /\ SubSeq(s, Len(s) - Len(suffix) + 1, Len(s)) = suffix

\* Path.glob(f"*_{vendor}_billing.parquet")
glob_vendor_files(directory, vendor) ==
  {f \in directory : endswith(f, <<"_">> \o vendor \o BillingParquet)}

\* Path.stem: the name without its last suffix
stem(f) == SubSeq(f, 1, Len(f) - Len(<<".","p","a","r","q","u","e","t">>))

\* str.split(sep)
RECURSIVE split(_, _)
split(s, sep) ==
  IF \A i \in 1..Len(s) : s[i] # sep
    THEN <<s>>
    ELSE LET i == CHOOSE j \in 1..Len(s) :
                    s[j] = sep /\ \A k \in 1..(j - 1) : s[k] # sep
         IN <<SubSeq(s, 1, i - 1)>> \o split(SubSeq(s, i + 1, Len(s)), sep)

\* BigQueryLoader.get_available_billing_periods, as a set
get_available_billing_periods(directory, vendor) ==
  {split(stem(f), "_")[1] :
     f \in {g \in glob_vendor_files(directory, vendor) :
              Len(split(stem(g), "_")) >= 2}}

\* the text of the name under which the loader looks up the file <<period, id>>
LookedUpName(name) ==
  IF name[2] = NoManifest
    THEN load_period_filename(BillingPeriodText(name[1]), Vendor)
    ELSE load_execution_filename(BillingPeriodText(name[1]),
                                 ExecutionIdText(name[2]), Vendor)

\* C25 (export/sync file naming): every file the exporter has written has
\* the name under which the loader looks up its billing period (and
\* execution id), and after an export every billing period that
\* get_available_billing_periods lists from the parquet directory has the
\* file that _load_single_period looks up for it.
C25_FileNaming ==
  last_export.called =>
    /\ \A n \in FileNames :
         parquet_files[n].exists => WrittenName(n) = LookedUpName(n)
    /\ \A billing_period \in
           get_available_billing_periods(DirectoryOf(parquet_files), Vendor) :
         load_period_filename(billing_period, Vendor)
           \in DirectoryOf(parquet_files)

\* ------------------------------------------------------------------------
\* The command handlers: configuration and date arguments
\* ------------------------------------------------------------------------
Handlers ==
  {"discover_manifests", "extract_billing", "load_billing_local",
   "export_parquet", "load_billing_remote", "run_pipeline"}

\* the handlers whose parser has --start-date and --end-date
DateHandlers == Handlers \ {"discover_manifests"}

\* the fields validate_aws requires
AwsRequired ==
  {"bucket", "prefix", "export_name", "aws_access_key_id",
   "aws_secret_access_key"}

\* the fields without which from_file builds no BigQueryConfig
BigQueryRequired == {"project_id", "credentials_path"}

\* the configuration files: complete, or with one field missing
MissingFields == {{}} \cup {{f} : f \in AwsRequired \cup BigQueryRequired}

\* the values of --start-date and --end-date: not given, 2024-01, 2024-1
\* and 2024-01-01
DateArgs ==
  {<<>>, YearStr(2024) \o <<"-","0","1">>, YearStr(2024) \o <<"-","1">>,
   YearStr(2024) \o <<"-","0","1","-","0","1">>}

\* re.match(r'^\d{4}-\d{2}$', s)
matches_year_month(s) ==
  /\ Len(s) = 7
  /\ \A i \in {1, 2, 3, 4, 6, 7} : s[i] \in Digit
  /\ s[5] = "-"

validate_date_range(start_date, end_date) ==
  /\ start_date # <<>> => matches_year_month(start_date)
  /\ end_date # <<>> => matches_year_month(end_date)

\* validate_aws raises ValueError
validate_aws_raises(missing) == missing \cap AwsRequired # {}

\* config.bigquery is None
bigquery_missing(missing) == missing \cap BigQueryRequired # {}

\* the process ends: sys.exit(1), by the handler or by handle_command_errors
\* on an exception, or status 0 when the handler returns
Exit(status) ==
  command' = [command EXCEPT !.pc = "exited", !.exit = status]

Goto(label) == command' = [command EXCEPT !.pc = label]

\* what the handler does after load_and_validate_config has returned
AfterConfig(name) ==
  CASE name \in {"extract_billing", "run_pipeline", "export_parquet"} ->
         "dates"
    [] OTHER -> "access"

\* what the handler does when validate_date_range returns False:
\* extract_billing calls sys.exit(1), the other two return
invalid_dates_status(name) == IF name = "extract_billing" THEN 1 ELSE 0

\* the first store the handler accesses
FirstStore(name) ==
  CASE name = "export_parquet" -> "database"
    [] name = "load_billing_remote" -> "warehouse"
    [] OTHER -> "object_storage"

CommandUnchanged ==
  UNCHANGED <<pipeline_vars, schema_vars, export_vars, sync_vars, monthly,
              parsed, dry_run>>

InitCommand ==
  /\ PipelineInit
  /\ SchemaIdle
  /\ ExportIdle
  /\ SyncIdle
  /\ MonthlyIdle
  /\ parsed = NoParsed
  /\ dry_run = NoDryRun
  /\ \E name \in Handlers, missing \in MissingFields,
        start_date \in DateArgs, end_date \in DateArgs :
       /\ name \notin DateHandlers => start_date = <<>> /\ end_date = <<>>
       /\ command = [NoCommand EXCEPT !.pc = "start", !.name = name,
                       !.missing = missing, !.start_date = start_date,
                       !.end_date = end_date]

\* load_and_validate_config in the handlers that call it
LoadAndValidateConfig ==
  /\ command.pc = "start"
  /\ command.name # "load_billing_remote"
  /\ IF validate_aws_raises(command.missing)
       THEN Exit(1)
       ELSE Goto(AfterConfig(command.name))
  /\ CommandUnchanged

\* FinopsConfig.from_file and the check of config.bigquery in
\* load_billing_remote
LoadRemoteConfig ==
  /\ command.pc = "start"
  /\ command.name = "load_billing_remote"
  /\ IF bigquery_missing(command.missing)
       THEN Exit(1)
       ELSE Goto("access")
  /\ CommandUnchanged

\* the call of validate_date_range in the handlers that make one
ValidateDateRange ==
  /\ command.pc = "dates"
  /\ IF validate_date_range(command.start_date, command.end_date)
       THEN Goto("access")
       ELSE Exit(invalid_dates_status(command.name))
  /\ CommandUnchanged

\* the handler's first access to the bucket, the DuckDB database or BigQuery
AccessStore ==
  /\ command.pc = "access"
  /\ command' = [command EXCEPT
       !.pc = "running",
       !.accessed = command.accessed \cup {FirstStore(command.name)}]
  /\ CommandUnchanged

\* the rest of the handler: it returns, or an exception or sys.exit(1)
\* ends the process
CommandEnds ==
  /\ command.pc = "running"
  /\ \E status \in {0, 1} : Exit(status)
  /\ CommandUnchanged

NextCommand ==
  \/ LoadAndValidateConfig
  \/ LoadRemoteConfig
  \/ ValidateDateRange
  \/ AccessStore
  \/ CommandEnds

SpecCommand == InitCommand /\ [][NextCommand]_vars

\* the command line has a configuration error
RequiredFields(name) ==
  IF name = "load_billing_remote" THEN BigQueryRequired ELSE AwsRequired

ConfigurationError ==
  \/ command.missing \cap RequiredFields(command.name) # {}
  \/ /\ command.name \in DateHandlers
     /\ ~validate_date_range(command.start_date, command.end_date)

\* C24 (configuration errors): a command started with a required
\* configuration field missing or with a start or end date that is not
\* YYYY-MM accesses no object storage, database or warehouse and ends with
\* a non-zero exit status.
C24_ConfigurationErrors ==
  (command.pc # "idle" /\ ConfigurationError)
    => /\ command.accessed = {}
       /\ command.pc = "exited" => command.exit # 0

\* ------------------------------------------------------------------------
\* The dry run of the pipeline
\* ------------------------------------------------------------------------
\* self.state_db of the ManifestDiscoveryService that
\* discover_and_filter_manifests builds: the second positional argument of
\* the constructor, which is the state_checker the handler passes
service_state_db_Wired(state_checker) == "state_db"

service_state_db(state_checker) == state_checker

\* the loop of save_manifest at the end of discover_manifests: on a service
\* without a state database the first call raises AttributeError
persist_discovered(db, service_db, manifests) ==
  IF manifests = {}
    THEN [raised |-> FALSE, db |-> db]
    ELSE IF service_db = "none"
           THEN [raised |-> TRUE, db |-> db]
           ELSE [raised |-> FALSE,
                 db |-> [m \in Manifests |->
                           IF m \in manifests
                             THEN save_manifest(db, m)[m]
                             ELSE db[m]]]

\* StateDB.get_unprocessed_manifests: the manifests discovered and not yet
\* processed
get_unprocessed_manifests(db) == {m \in Manifests : db[m] = "discovered"}

\* _get_manifests_to_process
get_manifests_to_process(db, start_date, end_date) ==
  {m \in get_unprocessed_manifests(db) : InDateRange(m, start_date, end_date)}

\* the states a dry run is started in: any bucket, any rows of the state
\* database left by earlier runs
DryRunStates == {Absent, "discovered", "loaded"}

InitDryRun ==
  /\ bucket \in SUBSET Manifests
  /\ state_db \in [Manifests -> DryRunStates]
  /\ staging_dirs = {}
  /\ staging_files = {}
  /\ table_columns = {}
  /\ table_rows = EmptyBag
  /\ CommandsIdle
  /\ SchemaIdle
  /\ ExportIdle
  /\ SyncIdle
  /\ MonthlyIdle
  /\ parsed = NoParsed
  /\ command = NoCommand
  /\ \E entry \in {"run_pipeline", "run_full_pipeline"},
        start_date \in {NoDate} \cup Periods :
       dry_run = [NoDryRun EXCEPT !.pc = "start", !.entry = entry,
                    !.start_date = start_date]

\* the handler run_pipeline with args.dry_run: discovery without a state
\* checker, then the return of the dry run
RunPipelineDryRun ==
  /\ dry_run.pc = "start"
  /\ dry_run.entry = "run_pipeline"
  /\ \E listing_fails \in BOOLEAN, unparseable \in SUBSET bucket :
       \E found \in {find_manifests_by_pattern(listing_fails, bucket,
                                               unparseable)} :
         \E saved \in {persist_discovered(state_db, service_state_db("none"),
                                          found.manifests)} :
           /\ state_db' = saved.db
           /\ dry_run' = [dry_run EXCEPT
                !.pc = "exited",
                !.manifests = found.manifests,
                !.exit = IF found.raised \/ saved.raised THEN 1 ELSE 0]
  /\ UNCHANGED <<bucket, staging_vars, db_vars, pc, queue, cur, load_vars,
                 result, load_stats, last_load, last_discovery,
                 extract_stats, schema_vars, export_vars, sync_vars, monthly,
                 parsed, command>>

\* PipelineOrchestrator.run_full_pipeline with dry_run: _dry_run_pipeline
RunFullPipelineDryRun ==
  /\ dry_run.pc = "start"
  /\ dry_run.entry = "run_full_pipeline"
  /\ dry_run' = [dry_run EXCEPT
       !.pc = "exited",
       !.manifests = get_manifests_to_process(state_db, dry_run.start_date,
                                              dry_run.end_date),
       !.exit = 0]
  /\ UNCHANGED <<pipeline_vars, schema_vars, export_vars, sync_vars, monthly,
                 parsed, command>>

NextDryRun == RunPipelineDryRun \/ RunFullPipelineDryRun

SpecDryRun == InitDryRun /\ [][NextDryRun]_vars

=============================================================================
